---- MODULE Spec2Model ----
(***************************************************************************)
(* The evaluator of Stremax-Lang (pkg/interpreter/interpreter.go) as a     *)
(* state machine.  Interpreter.Run checks the parser's diagnostics, then   *)
(* evalProgram walks the top-level statements; one step of the machine is  *)
(* one iteration of that loop.  A statement is evaluated by the recursive  *)
(* operators below, which thread the interpreter's mutable state (the      *)
(* environments, the current environment i.env, the standard output) the   *)
(* way the Go methods do through the receiver.                             *)
(***************************************************************************)
EXTENDS Integers, Sequences, FiniteSets, TLC

\* ------------------------------------------------------------------ bounds
\* integer literals of the generated arithmetic programs lie in -MaxInt..MaxInt
MaxInt == 4
\* number of top-level statements of a generated statement-list program
MaxStmts == 3
\* number of closure calls after the two adders are made
MaxCalls == 2
\* length of the generated arrays
MaxArray == 2
\* nesting depth of the generated block programs
MaxDepth == 2
\* number of entries of the generated map literals
MaxPairs == 2
\* length of the texts given to a lexer that is used on its own
MaxText == 3
\* number of calls of NextToken on such a lexer
MaxTokens == 5
\* largest argument of the generated factorial programs (each level of the
\* recursion is a level of recursion of the evaluator)
MaxFact == 2

\* ------------------------------------------------------------------ errors
\* errors.Error: Type and Message (Line and Column are kept too)
NoErr == [Type |-> "none", Message |-> "", Line |-> 0, Column |-> 0]

NewSyntaxError(m, l, c) == [Type |-> "SyntaxError", Message |-> m, Line |-> l, Column |-> c]

NewTypeError(m, l, c) == [Type |-> "TypeError", Message |-> m, Line |-> l, Column |-> c]

NewReferenceError(m, l, c) == [Type |-> "ReferenceError", Message |-> m, Line |-> l, Column |-> c]

NewRuntimeError(m, l, c) == [Type |-> "RuntimeError", Message |-> m, Line |-> l, Column |-> c]

\* a Go run-time panic (method call on a nil interface): the host crashes
Panic == [Type |-> "panic", Message |-> "nil pointer dereference", Line |-> 0, Column |-> 0]

\* ------------------------------------------------------------------ objects
\* the Go nil Object (no value)
NIL == [t |-> "nil"]

\* var NULL = &Null{}: the one shared Null object
NULL == [t |-> "NULL", id |-> 0]

\* obj.Type() of a non-nil object
Type(obj) == obj.t

\* fmt.Sprintf("%d", v) for one decimal digit
DigitStr(d) == SubSeq("0123456789", d + 1, d + 1)

RECURSIVE Digits(_)
Digits(n) == IF n < 10 THEN DigitStr(n) ELSE Digits(n \div 10) \o DigitStr(n % 10)

\* fmt.Sprintf("%d", v)
Itoa(v) == IF v < 0 THEN "-" \o Digits(-v) ELSE Digits(v)

\* fmt.Sprintf("%t", b)
Btoa(b) == IF b THEN "true" ELSE "false"

\* strings.HasPrefix
HasPrefix(s, p) == Len(s) >= Len(p) /\ SubSeq(s, 1, Len(p)) = p

\* a division that rounds toward minus infinity instead
FloorDiv(a, b) == a \div b

\* Go's int64 division: the quotient truncated toward zero (b # 0)
GoDiv(a, b) ==
  LET q == (IF a < 0 THEN -a ELSE a) \div (IF b < 0 THEN -b ELSE b)
  IN IF (a < 0) = (b < 0) THEN q ELSE -q

\* strings.Join(elements, ", ")
RECURSIVE Join(_)
Join(ss) ==
  IF Len(ss) = 0 THEN ""
  ELSE IF Len(ss) = 1 THEN ss[1]
  ELSE ss[1] \o ", " \o Join(Tail(ss))

\* obj.Inspect() dereferences a nil pointer: obj is nil, or wraps or holds nil
RECURSIVE InspectPanics(_)
InspectPanics(obj) ==
  CASE obj.t = "nil" -> TRUE
    [] obj.t = "RETURN_VALUE" -> InspectPanics(obj.Value)
    [] obj.t = "ARRAY" -> \E k \in 1..Len(obj.Elements) : InspectPanics(obj.Elements[k])
    [] obj.t = "HASH" -> \E k \in 1..Len(obj.Pairs) :
                           InspectPanics(obj.Pairs[k].Key) \/ InspectPanics(obj.Pairs[k].Value)
    [] OTHER -> FALSE

\* obj.Inspect() of an object InspectPanics says is safe to inspect
RECURSIVE Inspect(_), InspectPairs(_)
Inspect(obj) ==
  CASE obj.t = "INTEGER" -> Itoa(obj.Value)
    [] obj.t = "STRING" -> obj.Value
    [] obj.t = "BOOLEAN" -> Btoa(obj.Value)
    [] obj.t = "FUNCTION" -> "function " \o obj.Name
    [] obj.t = "RETURN_VALUE" -> Inspect(obj.Value)
    [] obj.t = "ARRAY" -> "[" \o Join([k \in 1..Len(obj.Elements) |-> Inspect(obj.Elements[k])]) \o "]"
    [] obj.t = "HASH" -> "{" \o Join(InspectPairs(obj.Pairs)) \o "}"
    [] obj.t = "NULL" -> "null"

\* the "key: value" texts of a Hash's pairs; a Hash's pair list is kept in the
\* order in which this run's range loops visit the Go map
InspectPairs(pairs) ==
  [k \in 1..Len(pairs) |-> Inspect(pairs[k].Key) \o ": " \o Inspect(pairs[k].Value)]

\* ------------------------------------------------------------------ environments
\* the interpreter's mutable state: heap[e] is the Environment with address e
\* (store and outer, outer = 0 for nil), env is i.env, nobj counts the objects
\* allocated so far (an object's id is its address), out is the standard
\* output, trace lists the statements handed to evalStatement
NewEnvironment == [store |-> [n \in {} |-> NIL], outer |-> 0]

NewEnclosedEnvironment(st, outer) ==
  [st EXCEPT !.heap = Append(@, [NewEnvironment EXCEPT !.outer = outer])]

\* the address NewEnclosedEnvironment(st, _) gives the new environment
NewAddr(st) == Len(st.heap) + 1

RECURSIVE Get(_, _, _)
Get(heap, e, name) ==
  IF name \in DOMAIN heap[e].store THEN [obj |-> heap[e].store[name], ok |-> TRUE]
  ELSE IF heap[e].outer # 0 THEN Get(heap, heap[e].outer, name)
  ELSE [obj |-> NIL, ok |-> FALSE]

\* a Set that assigns to the nearest enclosing binding of the name, when there
\* is one, instead of always binding in the environment it is called on
RECURSIVE SetNearest(_, _, _, _)
SetNearest(st, e, name, val) ==
  IF name \notin DOMAIN st.heap[e].store /\ Get(st.heap, e, name).ok
    THEN SetNearest(st, st.heap[e].outer, name, val)
  ELSE [st EXCEPT !.heap[e].store =
          [n \in DOMAIN @ \cup {name} |-> IF n = name THEN val ELSE @[n]]]

Set(st, e, name, val) ==
  [st EXCEPT !.heap[e].store =
     [n \in DOMAIN @ \cup {name} |-> IF n = name THEN val ELSE @[n]]]

\* the result of an eval method: the state after it, the Object and the error
R(st, val, err) == [st |-> st, val |-> val, err |-> err]

\* v, the result of a call, handed to the code that follows the call
Bind(v, f(_)) == f(v)

\* &T{...}: a fresh object with the next address
Alloc(st, obj) ==
  R([st EXCEPT !.nobj = @ + 1], obj @@ [id |-> st.nobj + 1], NoErr)

\* ------------------------------------------------------------------ AST
\* parser.Token: only the position is read by the evaluator
Tok(l, c) == [Line |-> l, Column |-> c]

\* a nil Expression or a nil *BlockStatement
NoNode == [t |-> "nil"]

IntegerLiteral(v) == [t |-> "IntegerLiteral", Value |-> v]

StringLiteral(v) == [t |-> "StringLiteral", Value |-> v]

BooleanLiteral(v) == [t |-> "BooleanLiteral", Value |-> v]

Identifier(tok, name) == [t |-> "Identifier", Token |-> tok, Value |-> name]

PrefixExpression(tok, op, right) ==
  [t |-> "PrefixExpression", Token |-> tok, Operator |-> op, Right |-> right]

InfixExpression(tok, left, op, right) ==
  [t |-> "InfixExpression", Token |-> tok, Operator |-> op, Left |-> left, Right |-> right]

BlockStatement(tok, stmts) == [t |-> "BlockStatement", Token |-> tok, Statements |-> stmts]

IfExpression(cond, cons, alt) ==
  [t |-> "IfExpression", Condition |-> cond, Consequence |-> cons, Alternative |-> alt]

CallExpression(tok, fn, args) ==
  [t |-> "CallExpression", Token |-> tok, Function |-> fn, Arguments |-> args]

\* Parameters: the parameter names (param.Name.Value)
FunctionLiteral(params, body) == [t |-> "FunctionLiteral", Parameters |-> params, Body |-> body]

ArrayLiteral(elems) == [t |-> "ArrayLiteral", Elements |-> elems]

IndexExpression(tok, left, index) ==
  [t |-> "IndexExpression", Token |-> tok, Left |-> left, Index |-> index]

\* Pairs: the <<key node, value node>> entries of the Go map node.Pairs
HashLiteral(tok, pairs) == [t |-> "HashLiteral", Token |-> tok, Pairs |-> pairs]

DotExpression(tok, left, right) == [t |-> "DotExpression", Token |-> tok, Left |-> left, Right |-> right]

LetStatement(tok, name, value) ==
  [t |-> "LetStatement", Token |-> tok, Name |-> name, Value |-> value]

ReturnStatement(tok, value) == [t |-> "ReturnStatement", Token |-> tok, ReturnValue |-> value]

ExpressionStatement(tok, e) == [t |-> "ExpressionStatement", Token |-> tok, Expression |-> e]

ContractStatement(tok, name) == [t |-> "ContractStatement", Token |-> tok, Name |-> name]

\* Name = "" stands for a nil stmt.Name
FunctionStatement(tok, name, params, body) ==
  [t |-> "FunctionStatement", Token |-> tok, Name |-> name, Parameters |-> params, Body |-> body]

RequireStatement(tok, cond, msg) ==
  [t |-> "RequireStatement", Token |-> tok, Condition |-> cond, Message |-> msg]

EmitStatement(tok, name, args) ==
  [t |-> "EmitStatement", Token |-> tok, EventName |-> name, Arguments |-> args]

EventStatement(tok, name) == [t |-> "EventStatement", Token |-> tok, Name |-> name]

\* ------------------------------------------------------------------ evaluator
RECURSIVE evalExpression(_, _), evalStatement(_, _), evalBlockStatement(_, _)
RECURSIVE blockLoop(_, _, _, _, _), expressionsLoop(_, _, _, _)
RECURSIVE emitLoop(_, _, _), hashLoop(_, _, _, _, _), bindLoop(_, _, _, _, _)

\* a == b on two non-nil Objects: the same pointer
SameObject(a, b) == a.t = b.t /\ a.id = b.id

\* the %T of an Expression in the default branch of evalExpression
GoTypeName(e) == IF e.t = "nil" THEN "<nil>" ELSE "*parser." \o e.t

evalIdentifier(ident, st) ==
  LET g == Get(st.heap, st.env, ident.Value)
  IN IF ~g.ok
       THEN R(st, NIL, NewReferenceError("Identifier not found: " \o ident.Value,
                                         ident.Token.Line, ident.Token.Column))
       ELSE R(st, g.obj, NoErr)

evalBangOperatorExpression(right, st) ==
  IF right.t = "BOOLEAN" THEN Alloc(st, [t |-> "BOOLEAN", Value |-> ~right.Value])
  ELSE Alloc(st, [t |-> "BOOLEAN", Value |-> FALSE])

evalMinusPrefixOperatorExpression(right, st) ==
  IF right.t = "nil" THEN R(st, NIL, Panic)
  ELSE IF Type(right) # "INTEGER" THEN R(st, NIL, NewTypeError("Cannot negate non-integer", 0, 0))
  ELSE Alloc(st, [t |-> "INTEGER", Value |-> -right.Value])

evalPrefixExpression(expr, st) ==
  Bind(evalExpression(expr.Right, st), LAMBDA r :
    IF r.err # NoErr THEN R(r.st, NIL, r.err)
    ELSE IF expr.Operator = "!" THEN evalBangOperatorExpression(r.val, r.st)
    ELSE IF expr.Operator = "-" THEN evalMinusPrefixOperatorExpression(r.val, r.st)
    ELSE R(r.st, NIL, NewRuntimeError("Unknown operator: " \o expr.Operator,
                                      expr.Token.Line, expr.Token.Column)))

evalIntegerInfixExpression(operator, left, right, st) ==
  LET leftVal == left.Value
      rightVal == right.Value
  IN IF operator = "+" THEN Alloc(st, [t |-> "INTEGER", Value |-> leftVal + rightVal])
     ELSE IF operator = "-" THEN Alloc(st, [t |-> "INTEGER", Value |-> leftVal - rightVal])
     ELSE IF operator = "*" THEN Alloc(st, [t |-> "INTEGER", Value |-> leftVal * rightVal])
     ELSE IF operator = "/" THEN
       IF rightVal = 0 THEN R(st, NIL, NewRuntimeError("Division by zero", 0, 0))
       ELSE Alloc(st, [t |-> "INTEGER", Value |-> GoDiv(leftVal, rightVal)])
     ELSE IF operator = "<" THEN Alloc(st, [t |-> "BOOLEAN", Value |-> leftVal < rightVal])
     ELSE IF operator = ">" THEN Alloc(st, [t |-> "BOOLEAN", Value |-> leftVal > rightVal])
     ELSE IF operator = "<=" THEN Alloc(st, [t |-> "BOOLEAN", Value |-> leftVal <= rightVal])
     ELSE IF operator = ">=" THEN Alloc(st, [t |-> "BOOLEAN", Value |-> leftVal >= rightVal])
     ELSE IF operator = "==" THEN Alloc(st, [t |-> "BOOLEAN", Value |-> leftVal = rightVal])
     ELSE IF operator = "!=" THEN Alloc(st, [t |-> "BOOLEAN", Value |-> leftVal # rightVal])
     ELSE R(st, NIL, NewRuntimeError("Unknown operator: " \o operator, 0, 0))

evalStringInfixExpression(operator, left, right, st) ==
  LET leftVal == left.Value
      rightVal == right.Value
  IN IF operator = "+" THEN Alloc(st, [t |-> "STRING", Value |-> leftVal \o rightVal])
     ELSE IF operator = "==" THEN Alloc(st, [t |-> "BOOLEAN", Value |-> leftVal = rightVal])
     ELSE IF operator = "!=" THEN Alloc(st, [t |-> "BOOLEAN", Value |-> leftVal # rightVal])
     ELSE R(st, NIL, NewRuntimeError("Unknown operator: " \o operator, 0, 0))

\* a concatenation that always puts the string first
stringFirstConcatExpression(strObj, otherObj, stringIsLeft, st) ==
  IF otherObj.t \notin {"INTEGER", "BOOLEAN", "STRING"} /\ InspectPanics(otherObj)
    THEN R(st, NIL, Panic)
  ELSE Alloc(st, [t |-> "STRING",
                  Value |-> strObj.Value \o
                            (IF otherObj.t = "INTEGER" THEN Itoa(otherObj.Value)
                             ELSE IF otherObj.t = "BOOLEAN" THEN Btoa(otherObj.Value)
                             ELSE IF otherObj.t = "STRING" THEN otherObj.Value
                             ELSE Inspect(otherObj))])

evalMixedStringConcatExpression(strObj, otherObj, stringIsLeft, st) ==
  LET strVal == strObj.Value
  IN IF otherObj.t \notin {"INTEGER", "BOOLEAN", "STRING"} /\ InspectPanics(otherObj)
       THEN R(st, NIL, Panic)
     ELSE
       LET otherVal == IF otherObj.t = "INTEGER" THEN Itoa(otherObj.Value)
                       ELSE IF otherObj.t = "BOOLEAN" THEN Btoa(otherObj.Value)
                       ELSE IF otherObj.t = "STRING" THEN otherObj.Value
                       ELSE Inspect(otherObj)
       IN IF stringIsLeft THEN Alloc(st, [t |-> "STRING", Value |-> strVal \o otherVal])
          ELSE Alloc(st, [t |-> "STRING", Value |-> otherVal \o strVal])

\* the switch of evalInfixExpression on two evaluated operands.  left.Type() is
\* called first; with a non-nil left, every path through the case conditions
\* calls right.Type() (in the first or second case when left is an Integer or a
\* String, in the fourth otherwise), so a nil operand on either side panics
infixSwitch(expr, left, right, st) ==
  IF left.t = "nil" \/ right.t = "nil" THEN R(st, NIL, Panic)
  ELSE IF Type(left) = "INTEGER" /\ Type(right) = "INTEGER" THEN
    IF expr.Operator = "+" THEN
      LET leftStr == Itoa(left.Value)
          rightStr == Itoa(right.Value)
      IN IF HasPrefix(leftStr, "0") \/ HasPrefix(rightStr, "0")
           THEN Alloc(st, [t |-> "STRING", Value |-> leftStr \o rightStr])
           ELSE evalIntegerInfixExpression(expr.Operator, left, right, st)
    ELSE evalIntegerInfixExpression(expr.Operator, left, right, st)
  ELSE IF Type(left) = "STRING" /\ Type(right) = "STRING" THEN
    evalStringInfixExpression(expr.Operator, left, right, st)
  ELSE IF Type(left) = "STRING" /\ expr.Operator = "+" THEN
    evalMixedStringConcatExpression(left, right, TRUE, st)
  ELSE IF Type(right) = "STRING" /\ expr.Operator = "+" THEN
    evalMixedStringConcatExpression(right, left, FALSE, st)
  ELSE IF expr.Operator = "==" THEN Alloc(st, [t |-> "BOOLEAN", Value |-> SameObject(left, right)])
  ELSE IF expr.Operator = "!=" THEN Alloc(st, [t |-> "BOOLEAN", Value |-> ~SameObject(left, right)])
  ELSE R(st, NIL, NewTypeError(
           "Type mismatch: " \o Type(left) \o " " \o expr.Operator \o " " \o Type(right),
           expr.Token.Line, expr.Token.Column))

evalInfixExpression(expr, st) ==
  Bind(evalExpression(expr.Left, st), LAMBDA l :
    IF l.err # NoErr THEN R(l.st, NIL, l.err)
    ELSE Bind(evalExpression(expr.Right, l.st), LAMBDA r :
           IF r.err # NoErr THEN R(r.st, NIL, r.err)
           ELSE infixSwitch(expr, l.val, r.val, r.st)))

\* a truth rule under which the empty String, Null and Integers below zero
\* count as false
emptyIsFalse(obj) ==
  IF obj.t = "BOOLEAN" THEN obj.Value
  ELSE IF obj.t = "INTEGER" THEN obj.Value > 0
  ELSE IF obj.t = "STRING" THEN obj.Value # ""
  ELSE obj.t # "NULL"

isTruthy(obj) ==
  IF obj.t = "BOOLEAN" THEN obj.Value
  ELSE IF obj.t = "INTEGER" THEN obj.Value # 0
  ELSE TRUE

evalIfExpression(expr, st) ==
  Bind(evalExpression(expr.Condition, st), LAMBDA c :
    IF c.err # NoErr THEN R(c.st, NIL, c.err)
    ELSE IF isTruthy(c.val) THEN evalBlockStatement(expr.Consequence, c.st)
    ELSE IF expr.Alternative.t # "nil" THEN evalBlockStatement(expr.Alternative, c.st)
    ELSE R(c.st, NIL, NoErr))

\* r, the outcome of a block or of a call that was entered with i.env = before;
\* st.exits records how it was left (with an error, with a ReturnValue, or
\* normally) and the i.env it was left with
Exit(kind, before, r) ==
  [r EXCEPT !.st.exits =
     Append(@, [kind |-> kind, before |-> before, after |-> r.st.env,
                how |-> IF r.err # NoErr THEN "error"
                        ELSE IF r.val.t = "RETURN_VALUE" THEN "return"
                        ELSE "normal"])]

\* the for loop of evalExpressions (and the same loop of evalArrayLiteral): val
\* is the list of the Objects evaluated so far
expressionsLoop(exps, k, st, result) ==
  IF k > Len(exps) THEN R(st, result, NoErr)
  ELSE Bind(evalExpression(exps[k], st), LAMBDA r :
         IF r.err # NoErr THEN R(r.st, <<>>, r.err)
         ELSE expressionsLoop(exps, k + 1, r.st, Append(result, r.val)))

evalExpressions(exps, st) == expressionsLoop(exps, 1, st, <<>>)

\* the loop of evalCallExpression that binds the arguments to the parameters
bindLoop(st, e, params, args, k) ==
  IF k > Len(params) THEN st
  ELSE bindLoop(Set(st, e, params[k], args[k]), e, params, args, k + 1)

evalCallExpression(expr, st) ==
  Exit("call", st.env,
  Bind(evalExpression(expr.Function, st), LAMBDA f :
    IF f.err # NoErr THEN R(f.st, NIL, f.err)
    ELSE IF f.val.t = "nil" THEN R(f.st, NIL, Panic)
    ELSE IF f.val.t # "FUNCTION" THEN
      R(f.st, NIL, NewTypeError("Not a function: " \o Type(f.val),
                                expr.Token.Line, expr.Token.Column))
    ELSE
      Bind(evalExpressions(expr.Arguments, f.st), LAMBDA a :
        IF a.err # NoErr THEN R(a.st, NIL, a.err)
        ELSE IF Len(a.val) # Len(f.val.Parameters) THEN
          R(a.st, NIL, NewTypeError(
              "Wrong number of arguments: expected " \o Itoa(Len(f.val.Parameters))
                \o ", got " \o Itoa(Len(a.val)),
              expr.Token.Line, expr.Token.Column))
        ELSE
          Bind(evalBlockStatement(
                 f.val.Body,
                 [bindLoop(NewEnclosedEnvironment(a.st, f.val.Env), NewAddr(a.st),
                           f.val.Parameters, a.val, 1)
                    EXCEPT !.env = NewAddr(a.st)]),
               LAMBDA b :
                 IF b.err # NoErr THEN R([b.st EXCEPT !.env = a.st.env], NIL, b.err)
                 ELSE IF b.val.t = "RETURN_VALUE"
                   THEN R([b.st EXCEPT !.env = a.st.env], b.val.Value, NoErr)
                 ELSE R([b.st EXCEPT !.env = a.st.env], b.val, NoErr)))))

\* a function literal that captures a copy of the environment it is evaluated in
copyingFunctionLiteral(fl, st) ==
  Alloc([st EXCEPT !.heap = Append(@, st.heap[st.env])],
        [t |-> "FUNCTION", Parameters |-> fl.Parameters, Body |-> fl.Body,
         Env |-> NewAddr(st), Name |-> ""])

evalFunctionLiteral(fl, st) ==
  Alloc(st, [t |-> "FUNCTION", Parameters |-> fl.Parameters, Body |-> fl.Body,
             Env |-> st.env, Name |-> ""])

evalArrayLiteral(node, st) ==
  Bind(expressionsLoop(node.Elements, 1, st, <<>>), LAMBDA r :
    IF r.err # NoErr THEN R(r.st, NIL, r.err)
    ELSE Alloc(r.st, [t |-> "ARRAY", Elements |-> r.val]))

\* an array access that reports an index outside the array as an error
strictArrayIndexExpression(array, index, st) ==
  IF index.Value < 0 \/ index.Value > Len(array.Elements) - 1
    THEN R(st, NIL, NewRuntimeError("index out of range", 0, 0))
  ELSE R(st, array.Elements[index.Value + 1], NoErr)

evalArrayIndexExpression(array, index, st) ==
  LET idx == index.Value
      max == Len(array.Elements) - 1
  IN IF idx < 0 \/ idx > max THEN R(st, NULL, NoErr)
     ELSE R(st, array.Elements[idx + 1], NoErr)

\* ------------------------------------------------------------------ hash keys
\* a uint64 is kept as its eight bytes, least significant first
RECURSIVE BytesOf(_, _)
BytesOf(n, k) == IF k = 0 THEN <<>> ELSE <<n % 256>> \o BytesOf(n \div 256, k - 1)

\* uint64(v) of an int64 v (two's complement)
Uint64(v) ==
  IF v >= 0 THEN BytesOf(v, 8)
  ELSE LET m == BytesOf(-v - 1, 8) IN [k \in 1..8 |-> 255 - m[k]]

\* the bitwise exclusive or of two bytes
RECURSIVE Xor8(_, _, _)
Xor8(x, y, k) ==
  IF k = 0 THEN 0
  ELSE (IF (x % 2) # (y % 2) THEN 1 ELSE 0) + 2 * Xor8(x \div 2, y \div 2, k - 1)

\* h * 1099511628211 mod 2^64, the FNV prime being 2^40 + 435
RECURSIVE MulPrime(_, _, _)
MulPrime(h, k, carry) ==
  IF k > 8 THEN <<>>
  ELSE LET term == h[k] * 435 + (IF k > 5 THEN h[k - 5] ELSE 0) + carry
       IN <<term % 256>> \o MulPrime(h, k + 1, term \div 256)

\* the bytes the model's strings are made of
Ascii == " !#$%&'()*+,-./0123456789:;<=>?@ABCDEFGHIJKLMNOPQRSTUVWXYZ[]^_abcdefghijklmnopqrstuvwxyz{|}~"

AsciiCodes ==
  <<32, 33, 35, 36, 37, 38, 39, 40, 41, 42, 43, 44, 45, 46, 47>>
  \o [k \in 1..17 |-> 47 + k] \o [k \in 1..27 |-> 64 + k]
  \o <<93, 94, 95>> \o [k \in 1..30 |-> 96 + k]

ByteOf(c) == AsciiCodes[CHOOSE k \in 1..Len(Ascii) : SubSeq(Ascii, k, k) = c]

\* hash/fnv New64a, Write, Sum64: FNV-1a over the bytes of s
RECURSIVE Fnv64a(_, _, _)
Fnv64a(s, k, h) ==
  IF k > Len(s) THEN h
  ELSE Fnv64a(s, k + 1,
              MulPrime([h EXCEPT ![1] = Xor8(@, ByteOf(SubSeq(s, k, k)), 8)], 1, 0))

\* the FNV offset basis 14695981039346656037 = 0xcbf29ce484222325
FnvOffset == <<37, 35, 34, 132, 228, 156, 242, 203>>

\* key.(Hashable)
IsHashable(obj) == obj.t \in {"STRING", "BOOLEAN", "INTEGER"}

\* a hash key without the type tag: the value part alone
untaggedHashKey(obj) ==
  IF obj.t = "STRING" THEN [Type |-> "", Value |-> Fnv64a(obj.Value, 1, FnvOffset)]
  ELSE IF obj.t = "BOOLEAN" THEN [Type |-> "", Value |-> Uint64(IF obj.Value THEN 1 ELSE 0)]
  ELSE [Type |-> "", Value |-> Uint64(obj.Value)]

HashKey(obj) ==
  IF obj.t = "STRING" THEN [Type |-> Type(obj), Value |-> Fnv64a(obj.Value, 1, FnvOffset)]
  ELSE IF obj.t = "BOOLEAN" THEN [Type |-> Type(obj), Value |-> Uint64(IF obj.Value THEN 1 ELSE 0)]
  ELSE [Type |-> Type(obj), Value |-> Uint64(obj.Value)]

\* pairs[hashed] = HashPair{...} on a pair list: replace the pair of that key or
\* add one
PutPair(pairs, hashed, key, value) ==
  IF \E k \in 1..Len(pairs) : pairs[k].hk = hashed
    THEN [k \in 1..Len(pairs) |->
            IF pairs[k].hk = hashed THEN [hk |-> hashed, Key |-> key, Value |-> value]
            ELSE pairs[k]]
    ELSE Append(pairs, [hk |-> hashed, Key |-> key, Value |-> value])

Reverse(seq) == [k \in 1..Len(seq) |-> seq[Len(seq) + 1 - k]]

\* Go visits a map in an order it does not specify: each range loop (and each
\* construction of a map) takes the next bit of st.oracle, and visits the
\* entries in the listed order or in the reverse of it
NextBit(st) == IF Len(st.oracle) = 0 THEN FALSE ELSE Head(st.oracle)

DropBit(st) == IF Len(st.oracle) = 0 THEN st ELSE [st EXCEPT !.oracle = Tail(@)]

\* the range loop of evalHashLiteral over order, the visiting order of node.Pairs
hashLoop(node, order, k, st, pairs) ==
  IF k > Len(order) THEN R(st, pairs, NoErr)
  ELSE
    Bind(evalExpression(order[k][1], st), LAMBDA key :
      IF key.err # NoErr THEN R(key.st, <<>>, key.err)
      ELSE IF key.val.t = "nil" THEN R(key.st, <<>>, Panic)
      ELSE IF ~IsHashable(key.val) THEN
        R(key.st, <<>>, NewRuntimeError("unusable as hash key: " \o Type(key.val),
                                        node.Token.Line, node.Token.Column))
      ELSE
        Bind(evalExpression(order[k][2], key.st), LAMBDA value :
          IF value.err # NoErr THEN R(value.st, <<>>, value.err)
          ELSE hashLoop(node, order, k + 1, value.st,
                        PutPair(pairs, HashKey(key.val), key.val, value.val))))

evalHashLiteral(node, st) ==
  Bind(hashLoop(node, IF NextBit(st) THEN Reverse(node.Pairs) ELSE node.Pairs, 1,
                DropBit(st), <<>>),
       LAMBDA r :
         IF r.err # NoErr THEN R(r.st, NIL, r.err)
         ELSE Alloc(DropBit(r.st),
                    [t |-> "HASH",
                     Pairs |-> IF NextBit(r.st) THEN Reverse(r.val) ELSE r.val]))

evalHashIndexExpression(hash, index, tok, st) ==
  IF index.t = "nil" THEN R(st, NIL, Panic)
  ELSE IF ~IsHashable(index) THEN
    R(st, NIL, NewRuntimeError("unusable as hash key: " \o Type(index), tok.Line, tok.Column))
  ELSE
    Bind(HashKey(index), LAMBDA hashed :
      IF ~\E k \in 1..Len(hash.Pairs) : hash.Pairs[k].hk = hashed THEN R(st, NULL, NoErr)
      ELSE R(st, hash.Pairs[CHOOSE k \in 1..Len(hash.Pairs) : hash.Pairs[k].hk = hashed].Value,
             NoErr))

\* left.Type() panics on nil; index.Type() is called only when left is an Array
evalElementAccess(left, index, tok, st) ==
  IF left.t = "nil" THEN R(st, NIL, Panic)
  ELSE IF Type(left) = "ARRAY" /\ index.t = "nil" THEN R(st, NIL, Panic)
  ELSE IF Type(left) = "ARRAY" /\ Type(index) = "INTEGER" THEN
    evalArrayIndexExpression(left, index, st)
  ELSE IF Type(left) = "HASH" THEN evalHashIndexExpression(left, index, tok, st)
  ELSE R(st, NIL, NewRuntimeError("index operator not supported: " \o Type(left),
                                  tok.Line, tok.Column))

evalIndexExpression(expr, st) ==
  Bind(evalExpression(expr.Left, st), LAMBDA l :
    IF l.err # NoErr THEN R(l.st, NIL, l.err)
    ELSE Bind(evalExpression(expr.Index, l.st), LAMBDA x :
           IF x.err # NoErr THEN R(x.st, NIL, x.err)
           ELSE evalElementAccess(l.val, x.val, expr.Token, x.st)))

\* ------------------------------------------------------------------ statements
\* fmt.Printf of one line
Printf(st, line) == [st EXCEPT !.out = Append(@, line)]

evalLetStatement(stmt, st) ==
  Bind(evalExpression(stmt.Value, st), LAMBDA r :
    IF r.err # NoErr THEN R(r.st, NIL, r.err)
    ELSE R(Set(r.st, r.st.env, stmt.Name, r.val), r.val, NoErr))

evalReturnStatement(stmt, st) ==
  Bind(evalExpression(stmt.ReturnValue, st), LAMBDA r :
    IF r.err # NoErr THEN R(r.st, NIL, r.err)
    ELSE Alloc(r.st, [t |-> "RETURN_VALUE", Value |-> r.val]))

\* a block loop that leaves the block's environment current when a statement
\* fails
RECURSIVE leakyLoop(_, _, _, _, _)
leakyLoop(stmts, k, st, result, previousEnv) ==
  IF k > Len(stmts) THEN R([st EXCEPT !.env = previousEnv], result, NoErr)
  ELSE Bind(evalStatement(stmts[k], st), LAMBDA r :
         IF r.err # NoErr THEN R(r.st, NIL, r.err)
         ELSE IF r.val.t # "nil" /\ Type(r.val) = "RETURN_VALUE"
           THEN R([r.st EXCEPT !.env = previousEnv], r.val, NoErr)
         ELSE leakyLoop(stmts, k + 1, r.st, r.val, previousEnv))

\* a block loop that goes on after a statement that gave a ReturnValue
RECURSIVE runOnLoop(_, _, _, _, _)
runOnLoop(stmts, k, st, result, previousEnv) ==
  IF k > Len(stmts) THEN R([st EXCEPT !.env = previousEnv], result, NoErr)
  ELSE Bind(evalStatement(stmts[k], st), LAMBDA r :
         IF r.err # NoErr THEN R([r.st EXCEPT !.env = previousEnv], NIL, r.err)
         ELSE runOnLoop(stmts, k + 1, r.st, r.val, previousEnv))

\* the for loop of evalBlockStatement from statement k on
blockLoop(stmts, k, st, result, previousEnv) ==
  IF k > Len(stmts) THEN R([st EXCEPT !.env = previousEnv], result, NoErr)
  ELSE Bind(evalStatement(stmts[k], st), LAMBDA r :
         IF r.err # NoErr THEN R([r.st EXCEPT !.env = previousEnv], NIL, r.err)
         ELSE IF r.val.t # "nil" /\ Type(r.val) = "RETURN_VALUE"
           THEN R([r.st EXCEPT !.env = previousEnv], r.val, NoErr)
         ELSE blockLoop(stmts, k + 1, r.st, r.val, previousEnv))

\* a block evaluated in the environment it is entered from
unscopedBlockStatement(block, st) ==
  blockLoop(block.Statements, 1, st, NIL, st.env)

evalBlockStatement(block, st) ==
  LET previousEnv == st.env
      blockEnv == NewAddr(st)
  IN Exit("block", st.env,
          blockLoop(block.Statements, 1,
                    [NewEnclosedEnvironment(st, st.env) EXCEPT !.env = blockEnv],
                    NIL, previousEnv))

evalContractStatement(stmt, st) ==
  R(st, NIL, NewRuntimeError("Contract statements not implemented yet",
                             stmt.Token.Line, stmt.Token.Column))

evalFunctionStatement(stmt, st) ==
  Bind(Alloc(st, [t |-> "FUNCTION", Parameters |-> stmt.Parameters, Body |-> stmt.Body,
                  Env |-> st.env, Name |-> stmt.Name]),
       LAMBDA f :
         IF stmt.Name # "" THEN R(Set(f.st, f.st.env, stmt.Name, f.val), f.val, NoErr)
         ELSE f)

\* a require that fails with the default message whatever message it was given
requireDefaultMessage(stmt, st) ==
  Bind(evalExpression(stmt.Condition, st), LAMBDA c :
    IF c.err # NoErr THEN R(c.st, NIL, c.err)
    ELSE IF ~isTruthy(c.val) THEN
      R(c.st, NIL, NewRuntimeError("Requirement failed", stmt.Token.Line, stmt.Token.Column))
    ELSE R(c.st, NIL, NoErr))

evalRequireStatement(stmt, st) ==
  Bind(evalExpression(stmt.Condition, st), LAMBDA c :
    IF c.err # NoErr THEN R(c.st, NIL, c.err)
    ELSE IF ~isTruthy(c.val) THEN
      IF stmt.Message.t # "nil" THEN
        Bind(evalExpression(stmt.Message, c.st), LAMBDA m :
          IF m.err # NoErr THEN R(m.st, NIL, m.err)
          ELSE IF m.val.t = "nil" THEN R(m.st, NIL, Panic)
          ELSE R(m.st, NIL, NewRuntimeError(
                   IF Type(m.val) = "STRING" THEN m.val.Value ELSE "Requirement failed",
                   stmt.Token.Line, stmt.Token.Column)))
      ELSE R(c.st, NIL, NewRuntimeError("Requirement failed",
                                        stmt.Token.Line, stmt.Token.Column))
    ELSE R(c.st, NIL, NoErr))

\* the for loop of evalEmitStatement over the arguments from k on
emitLoop(args, k, st) ==
  IF k > Len(args) THEN R(st, NIL, NoErr)
  ELSE Bind(evalExpression(args[k], st), LAMBDA a :
         IF a.err # NoErr THEN R(a.st, NIL, a.err)
         ELSE IF InspectPanics(a.val) THEN R(a.st, NIL, Panic)
         ELSE emitLoop(args, k + 1, Printf(a.st, "  Argument: " \o Inspect(a.val))))

evalEmitStatement(stmt, st) ==
  emitLoop(stmt.Arguments, 1, Printf(st, "Event emitted: " \o stmt.EventName))

evalExpression(e, st) ==
  CASE e.t = "IntegerLiteral" -> Alloc(st, [t |-> "INTEGER", Value |-> e.Value])
    [] e.t = "StringLiteral" -> Alloc(st, [t |-> "STRING", Value |-> e.Value])
    [] e.t = "BooleanLiteral" -> Alloc(st, [t |-> "BOOLEAN", Value |-> e.Value])
    [] e.t = "PrefixExpression" -> evalPrefixExpression(e, st)
    [] e.t = "InfixExpression" -> evalInfixExpression(e, st)
    [] e.t = "IfExpression" -> evalIfExpression(e, st)
    [] e.t = "Identifier" -> evalIdentifier(e, st)
    [] e.t = "CallExpression" -> evalCallExpression(e, st)
    [] e.t = "FunctionLiteral" -> evalFunctionLiteral(e, st)
    [] e.t = "ArrayLiteral" -> evalArrayLiteral(e, st)
    [] e.t = "IndexExpression" -> evalIndexExpression(e, st)
    [] e.t = "HashLiteral" -> evalHashLiteral(e, st)
    [] OTHER ->
         R(Printf(st, "DEBUG: Unknown expression type: " \o GoTypeName(e)), NIL,
           NewRuntimeError("Unknown expression type: " \o GoTypeName(e), 0, 0))

\* evalStatement; the statement's token is added to st.trace, the record of the
\* statements the evaluator was handed
evalStatement(stmt, st0) ==
  Bind([st0 EXCEPT !.trace = Append(@, stmt.Token)], LAMBDA st :
    CASE stmt.t = "LetStatement" -> evalLetStatement(stmt, st)
      [] stmt.t = "ReturnStatement" -> evalReturnStatement(stmt, st)
      [] stmt.t = "ExpressionStatement" -> evalExpression(stmt.Expression, st)
      [] stmt.t = "BlockStatement" -> evalBlockStatement(stmt, st)
      [] stmt.t = "ContractStatement" -> evalContractStatement(stmt, st)
      [] stmt.t = "FunctionStatement" -> evalFunctionStatement(stmt, st)
      [] stmt.t = "RequireStatement" -> evalRequireStatement(stmt, st)
      [] stmt.t = "EmitStatement" -> evalEmitStatement(stmt, st)
      [] OTHER -> R(st, NIL, NewRuntimeError("Unknown statement type", 0, 0)))

\* ------------------------------------------------------------------ lexer
\* A source text is a sequence of characters, each a string of length one; NUL
\* is the rune 0, which the lexer also uses for "no more input".  Positions
\* are Go's: position p is the character input[p + 1].
NUL == "NUL"

\* unicode.IsLetter, on the characters of the generated texts
Letters ==
  {"a", "b", "c", "d", "e", "f", "g", "h", "i", "j", "k", "l", "m", "n", "o", "p",
   "q", "r", "s", "t", "u", "v", "w", "x", "y", "z",
   "A", "B", "C", "D", "E", "F", "G", "H", "I", "J", "K", "L", "M", "N", "O", "P",
   "Q", "R", "S", "T", "U", "V", "W", "X", "Y", "Z"}

isLetter(ch) == ch \in Letters \/ ch = "_"

isDigit(ch) == ch \in {"0", "1", "2", "3", "4", "5", "6", "7", "8", "9"}

\* unicode.IsSpace, on the characters of the generated texts
IsSpace(ch) == ch \in {" ", "\t", "\n", "\r"}

Token(type, literal, line, column) ==
  [Type |-> type, Literal |-> literal, Line |-> line, Column |-> column]

\* newToken builds a fresh Token: its Line and Column are the zero value
newToken(tokenType, ch) == Token(tokenType, ch, 0, 0)

Keywords ==
  [function |-> "FUNCTION", contract |-> "CONTRACT", state |-> "STATE", let |-> "LET",
   true |-> "TRUE", false |-> "FALSE", if |-> "IF", else |-> "ELSE",
   return |-> "RETURN", require |-> "REQUIRE", emit |-> "EMIT", event |-> "EVENT",
   Address |-> "ADDRESS", Map |-> "MAP", constructor |-> "CONSTRUCTOR"]

LookupIdent(ident) == IF ident \in DOMAIN Keywords THEN Keywords[ident] ELSE "IDENT"

\* l.input[from:to]
RECURSIVE Slice(_, _, _)
Slice(in, from, to) == IF from >= to THEN "" ELSE in[from + 1] \o Slice(in, from + 1, to)

readChar(l) ==
  IF l.readPosition >= Len(l.input)
    THEN [l EXCEPT !.ch = NUL, !.column = @ + 1]
    ELSE [l EXCEPT !.ch = l.input[l.readPosition + 1],
                   !.position = l.readPosition,
                   !.readPosition = @ + 1,
                   !.column = @ + 1]

peekChar(l) == IF l.readPosition >= Len(l.input) THEN NUL ELSE l.input[l.readPosition + 1]

\* lexer.New
NewLexer(in) ==
  readChar([input |-> in, position |-> 0, readPosition |-> 0, ch |-> NUL,
            line |-> 1, column |-> 0])

\* the line counting that skipWhitespace, skipBlockComment and readString share
countLine(l) == IF l.ch = "\n" THEN [l EXCEPT !.line = @ + 1, !.column = 0] ELSE l

RECURSIVE skipWhitespace(_)
skipWhitespace(l) == IF IsSpace(l.ch) THEN skipWhitespace(readChar(countLine(l))) ELSE l

RECURSIVE untilEndOfLine(_)
untilEndOfLine(l) == IF l.ch # "\n" /\ l.ch # NUL THEN untilEndOfLine(readChar(l)) ELSE l

skipLineComment(l) == untilEndOfLine(readChar(l))

RECURSIVE blockCommentLoop(_)
blockCommentLoop(l) ==
  IF l.ch = NUL THEN l
  ELSE IF l.ch = "*" /\ peekChar(l) = "/" THEN readChar(readChar(l))
  ELSE blockCommentLoop(readChar(countLine(l)))

skipBlockComment(l) == blockCommentLoop(readChar(readChar(l)))

\* the loops of readIdentifier, readNumber and readString: the lexer when the
\* loop is left
RECURSIVE identifierLoop(_, _)
identifierLoop(l, position) ==
  IF isLetter(l.ch) \/ (l.position > position /\ isDigit(l.ch))
    THEN identifierLoop(readChar(l), position)
    ELSE l

RECURSIVE numberLoop(_)
numberLoop(l) == IF isDigit(l.ch) THEN numberLoop(readChar(l)) ELSE l

RECURSIVE stringLoop(_)
stringLoop(l) ==
  IF l.ch # "\"" /\ l.ch # NUL THEN stringLoop(readChar(countLine(l))) ELSE l

\* what NextToken returns and the lexer it leaves
Lexed(l, tok) == [l |-> l, tok |-> tok]

\* the cases of NextToken that read a second character: == != && ||
twoChars(l, second, type, other) ==
  IF peekChar(l) = second
    THEN Lexed(readChar(readChar(l)), Token(type, l.ch \o second, 0, 0))
    ELSE Lexed(readChar(l), newToken(other, l.ch))

RECURSIVE NextToken(_)
NextToken(l0) ==
  Bind(skipWhitespace(l0), LAMBDA l :
    CASE l.ch = "=" -> twoChars(l, "=", "==", "=")
      [] l.ch = "!" -> twoChars(l, "=", "!=", "!")
      [] l.ch = "&" -> twoChars(l, "&", "&&", "ILLEGAL")
      [] l.ch = "|" -> twoChars(l, "|", "||", "ILLEGAL")
      [] l.ch = "/" ->
           IF peekChar(l) = "/" THEN NextToken(skipLineComment(l))
           ELSE IF peekChar(l) = "*" THEN NextToken(skipBlockComment(l))
           ELSE Lexed(readChar(l), newToken("/", l.ch))
      [] l.ch \in {"+", "-", "*", "<", ">", ";", ":", ",", "(", ")", "{", "}",
                   "[", "]", "."} ->
           Lexed(readChar(l), newToken(l.ch, l.ch))
      [] l.ch = "\"" ->
           Bind(stringLoop(readChar(l)), LAMBDA s :
             Lexed(readChar(s),
                   Token("STRING", Slice(l.input, readChar(l).position, s.position),
                         l.line, l.column)))
      [] l.ch = NUL -> Lexed(readChar(l), Token("EOF", "", l.line, l.column))
      [] OTHER ->
           IF isLetter(l.ch) THEN
             Bind(identifierLoop(l, l.position), LAMBDA s :
               Lexed(s, Token(LookupIdent(Slice(l.input, l.position, s.position)),
                              Slice(l.input, l.position, s.position),
                              l.line, l.column)))
           ELSE IF isDigit(l.ch) THEN
             Bind(numberLoop(l), LAMBDA s :
               Lexed(s, Token("INT", Slice(l.input, l.position, s.position),
                              l.line, l.column)))
           ELSE Lexed(readChar(l), newToken("ILLEGAL", l.ch)))

\* ------------------------------------------------------------------ parser
\* The precedence levels of parser.go (the iota constants)
LOWEST == 1
EQUALS == 2
LESSGREATER == 3
SUM == 4
PRODUCT == 5
PREFIX == 6
CALL == 7
INDEX == 8
DOT == 9

\* a table that gives every binary operator the same level
flatPrecedences ==
  [t \in {"==", "!=", "<", ">", "+", "-", "/", "*", "(", "[", "."} |->
     CASE t \in {"==", "!=", "<", ">", "+", "-", "/", "*"} -> SUM
       [] t = "(" -> CALL
       [] t = "[" -> INDEX
       [] t = "." -> DOT]

precedences ==
  [t \in {"==", "!=", "<", ">", "+", "-", "/", "*", "(", "[", "."} |->
     CASE t \in {"==", "!="} -> EQUALS
       [] t \in {"<", ">"} -> LESSGREATER
       [] t \in {"+", "-"} -> SUM
       [] t \in {"/", "*"} -> PRODUCT
       [] t = "(" -> CALL
       [] t = "[" -> INDEX
       [] t = "." -> DOT]

\* the token types New registers a prefix, respectively an infix, function for
prefixParseFns == {"IDENT", "INT", "STRING", "TRUE", "FALSE", "!", "-", "(", "IF"}

infixParseFns == {"+", "-", "/", "*", "==", "!=", "<", ">", "(", "[", "."}

\* what a parse function returns (node) and the parser it leaves (p)
Parsed(p, node) == [p |-> p, node |-> node]

\* a nil pointer to a statement struct, held by a non-nil Statement interface
NilStatement(kind) == [t |-> "nil", kind |-> kind]

\* the position of a token, as the nodes of the evaluator keep it
TokenOf(tok) == Tok(tok.Line, tok.Column)

\* p.toks: the tokens l.NextToken has returned to this parser
nextToken(p) ==
  Bind(NextToken(p.l), LAMBDA r :
    [p EXCEPT !.curToken = p.peekToken, !.peekToken = r.tok, !.l = r.l,
              !.toks = Append(@, r.tok)])

\* parser.New
NewParser(l) ==
  nextToken(nextToken([l |-> l, errors |-> <<>>, curToken |-> Token("", "", 0, 0),
                       peekToken |-> Token("", "", 0, 0), toks |-> <<>>]))

curTokenIs(p, t) == p.curToken.Type = t

peekTokenIs(p, t) == p.peekToken.Type = t

peekPrecedence(p) ==
  IF p.peekToken.Type \in DOMAIN precedences THEN precedences[p.peekToken.Type] ELSE LOWEST

curPrecedence(p) ==
  IF p.curToken.Type \in DOMAIN precedences THEN precedences[p.curToken.Type] ELSE LOWEST

peekError(p, t) ==
  [p EXCEPT !.errors = Append(@, "expected next token to be " \o t \o ", got "
                                   \o p.peekToken.Type \o " instead")]

noPrefixParseFnError(p, t) ==
  [p EXCEPT !.errors = Append(@, "no prefix parse function for " \o t \o " found")]

\* expectPeek: the parser it leaves, and its result
expectPeek(p, t) ==
  IF peekTokenIs(p, t) THEN [p |-> nextToken(p), ok |-> TRUE]
  ELSE [p |-> peekError(p, t), ok |-> FALSE]

\* if p.peekTokenIs(lexer.SEMICOLON) { p.nextToken() }
skipSemicolon(p) == IF peekTokenIs(p, ";") THEN nextToken(p) ELSE p

\* the value of a digit character
DigitValue(c) == CHOOSE d \in 0..9 : DigitStr(d) = c

\* the digits of s from position j on, read in the given base after the value v
RECURSIVE digitsLoop(_, _, _, _)
digitsLoop(s, j, base, v) ==
  IF j > Len(s) THEN [ok |-> TRUE, value |-> v]
  ELSE IF DigitValue(SubSeq(s, j, j)) >= base THEN [ok |-> FALSE, value |-> 0]
  ELSE digitsLoop(s, j + 1, base, v * base + DigitValue(SubSeq(s, j, j)))

\* strconv.ParseInt(s, 0, 64) of a run of decimal digits: base 0 reads a
\* leading "0" as the octal prefix
ParseInt(s) ==
  IF s = "" THEN [ok |-> FALSE, value |-> 0]
  ELSE IF Len(s) > 1 /\ SubSeq(s, 1, 1) = "0" THEN digitsLoop(s, 2, 8, 0)
  ELSE digitsLoop(s, 1, 10, 0)

RECURSIVE parseExpression(_, _), parseStatement(_), parseBlockStatement(_)
RECURSIVE infixLoop(_, _, _), blockStatementLoop(_, _, _), listLoop(_, _)
RECURSIVE parseExpressionList(_, _), parseIfExpression(_), prefixFn(_), infixFn(_, _)

parseIdentifier(p) ==
  Parsed(p, Identifier(TokenOf(p.curToken), p.curToken.Literal))

parseIntegerLiteral(p) ==
  Bind(ParseInt(p.curToken.Literal), LAMBDA r :
    IF ~r.ok
      THEN Parsed([p EXCEPT !.errors = Append(@, "could not parse \"" \o p.curToken.Literal
                                                   \o "\" as integer")], NoNode)
      ELSE Parsed(p, IntegerLiteral(r.value)))

parseStringLiteral(p) == Parsed(p, StringLiteral(p.curToken.Literal))

parseBooleanLiteral(p) == Parsed(p, BooleanLiteral(curTokenIs(p, "TRUE")))

parsePrefixExpression(p) ==
  Bind(parseExpression(nextToken(p), PREFIX), LAMBDA r :
    Parsed(r.p, PrefixExpression(TokenOf(p.curToken), p.curToken.Literal, r.node)))

parseInfixExpression(p, left) ==
  Bind(parseExpression(nextToken(p), curPrecedence(p)), LAMBDA r :
    Parsed(r.p, InfixExpression(TokenOf(p.curToken), left, p.curToken.Literal, r.node)))

parseGroupedExpression(p) ==
  Bind(parseExpression(nextToken(p), LOWEST), LAMBDA exp :
    Bind(expectPeek(exp.p, ")"), LAMBDA e :
      IF ~e.ok THEN Parsed(e.p, NoNode) ELSE Parsed(e.p, exp.node)))

\* the else part of parseIfExpression
parseAlternative(p, condition, consequence) ==
  IF ~peekTokenIs(p, "ELSE") THEN Parsed(p, IfExpression(condition, consequence, NoNode))
  ELSE Bind(expectPeek(nextToken(p), "{"), LAMBDA e :
         IF ~e.ok THEN Parsed(e.p, NoNode)
         ELSE Bind(parseBlockStatement(e.p), LAMBDA alt :
                Parsed(alt.p, IfExpression(condition, consequence, alt.node))))

parseIfExpression(p) ==
  Bind(expectPeek(p, "("), LAMBDA e1 :
    IF ~e1.ok THEN Parsed(e1.p, NoNode)
    ELSE Bind(parseExpression(nextToken(e1.p), LOWEST), LAMBDA c :
      Bind(expectPeek(c.p, ")"), LAMBDA e2 :
        IF ~e2.ok THEN Parsed(e2.p, NoNode)
        ELSE Bind(expectPeek(e2.p, "{"), LAMBDA e3 :
          IF ~e3.ok THEN Parsed(e3.p, NoNode)
          ELSE Bind(parseBlockStatement(e3.p), LAMBDA b :
                 parseAlternative(b.p, c.node, b.node))))))

\* the for loop of parseExpressionList and of parseEmitStatement: list is the
\* list so far
listLoop(p, list) ==
  IF ~peekTokenIs(p, ",") THEN Parsed(p, list)
  ELSE Bind(parseExpression(nextToken(nextToken(p)), LOWEST), LAMBDA r :
         listLoop(r.p, Append(list, r.node)))

\* node: the list, <<>> for the nil slice of a failed expectPeek
parseExpressionList(p, end) ==
  IF peekTokenIs(p, end) THEN Parsed(nextToken(p), <<>>)
  ELSE Bind(parseExpression(nextToken(p), LOWEST), LAMBDA first :
    Bind(listLoop(first.p, <<first.node>>), LAMBDA r :
      Bind(expectPeek(r.p, end), LAMBDA e :
        IF ~e.ok THEN Parsed(e.p, <<>>) ELSE Parsed(e.p, r.node))))

parseCallExpression(p, function) ==
  Bind(parseExpressionList(p, ")"), LAMBDA r :
    Parsed(r.p, CallExpression(TokenOf(p.curToken), function, r.node)))

parseIndexExpression(p, left) ==
  Bind(parseExpression(nextToken(p), LOWEST), LAMBDA r :
    Bind(expectPeek(r.p, "]"), LAMBDA e :
      IF ~e.ok THEN Parsed(e.p, NoNode)
      ELSE Parsed(e.p, IndexExpression(TokenOf(p.curToken), left, r.node))))

\* p.prefixParseFns[p.curToken.Type]()
prefixFn(p) ==
  CASE curTokenIs(p, "IDENT") -> parseIdentifier(p)
    [] curTokenIs(p, "INT") -> parseIntegerLiteral(p)
    [] curTokenIs(p, "STRING") -> parseStringLiteral(p)
    [] p.curToken.Type \in {"TRUE", "FALSE"} -> parseBooleanLiteral(p)
    [] p.curToken.Type \in {"!", "-"} -> parsePrefixExpression(p)
    [] curTokenIs(p, "(") -> parseGroupedExpression(p)
    [] curTokenIs(p, "IF") -> parseIfExpression(p)

\* p.infixParseFns[p.curToken.Type](left); the generated texts have no "."
infixFn(p, left) ==
  CASE p.curToken.Type \in {"+", "-", "/", "*", "==", "!=", "<", ">"} ->
         parseInfixExpression(p, left)
    [] curTokenIs(p, "(") -> parseCallExpression(p, left)
    [] curTokenIs(p, "[") -> parseIndexExpression(p, left)

\* the for loop of parseExpression
infixLoop(p, leftExp, precedence) ==
  IF ~peekTokenIs(p, ";") /\ precedence < peekPrecedence(p)
    THEN IF p.peekToken.Type \notin infixParseFns THEN Parsed(p, leftExp)
         ELSE Bind(infixFn(nextToken(p), leftExp), LAMBDA r :
                infixLoop(r.p, r.node, precedence))
    ELSE Parsed(p, leftExp)

parseExpression(p, precedence) ==
  IF p.curToken.Type \notin prefixParseFns
    THEN Parsed(noPrefixParseFnError(p, p.curToken.Type), NoNode)
    ELSE Bind(prefixFn(p), LAMBDA left : infixLoop(left.p, left.node, precedence))

\* the generated texts have no type annotation (let x: T = ...)
parseLetStatement(p) ==
  Bind(expectPeek(p, "IDENT"), LAMBDA e1 :
    IF ~e1.ok THEN Parsed(e1.p, NilStatement("LetStatement"))
    ELSE Bind(expectPeek(e1.p, "="), LAMBDA e2 :
      IF ~e2.ok THEN Parsed(e2.p, NilStatement("LetStatement"))
      ELSE Bind(parseExpression(nextToken(e2.p), LOWEST), LAMBDA v :
             Parsed(skipSemicolon(v.p),
                    LetStatement(TokenOf(p.curToken), e1.p.curToken.Literal, v.node)))))

parseReturnStatement(p) ==
  Bind(parseExpression(nextToken(p), LOWEST), LAMBDA v :
    Parsed(skipSemicolon(v.p), ReturnStatement(TokenOf(p.curToken), v.node)))

parseRequireStatement(p) ==
  Bind(expectPeek(p, "("), LAMBDA e1 :
    IF ~e1.ok THEN Parsed(e1.p, NilStatement("RequireStatement"))
    ELSE Bind(parseExpression(nextToken(e1.p), LOWEST), LAMBDA c :
      Bind(expectPeek(c.p, ","), LAMBDA e2 :
        IF ~e2.ok THEN Parsed(e2.p, NilStatement("RequireStatement"))
        ELSE Bind(parseExpression(nextToken(e2.p), LOWEST), LAMBDA m :
          Bind(expectPeek(m.p, ")"), LAMBDA e3 :
            IF ~e3.ok THEN Parsed(e3.p, NilStatement("RequireStatement"))
            ELSE Parsed(skipSemicolon(e3.p),
                        RequireStatement(TokenOf(p.curToken), c.node, m.node)))))))

\* the arguments of parseEmitStatement
emitArguments(p) ==
  IF peekTokenIs(p, ")") THEN Parsed(p, <<>>)
  ELSE Bind(parseExpression(nextToken(p), LOWEST), LAMBDA first :
         listLoop(first.p, <<first.node>>))

parseEmitStatement(p) ==
  Bind(expectPeek(p, "IDENT"), LAMBDA e1 :
    IF ~e1.ok THEN Parsed(e1.p, NilStatement("EmitStatement"))
    ELSE Bind(expectPeek(e1.p, "("), LAMBDA e2 :
      IF ~e2.ok THEN Parsed(e2.p, NilStatement("EmitStatement"))
      ELSE Bind(emitArguments(e2.p), LAMBDA args :
        Bind(expectPeek(args.p, ")"), LAMBDA e3 :
          IF ~e3.ok THEN Parsed(e3.p, NilStatement("EmitStatement"))
          ELSE Parsed(skipSemicolon(e3.p),
                      EmitStatement(TokenOf(p.curToken), e1.p.curToken.Literal,
                                    args.node))))))

parseExpressionStatement(p) ==
  Bind(parseExpression(p, LOWEST), LAMBDA e :
    Parsed(skipSemicolon(e.p), ExpressionStatement(TokenOf(p.curToken), e.node)))

\* the generated texts have none of the keywords contract, function,
\* constructor and event
parseStatement(p) ==
  CASE curTokenIs(p, "LET") -> parseLetStatement(p)
    [] curTokenIs(p, "RETURN") -> parseReturnStatement(p)
    [] curTokenIs(p, "REQUIRE") -> parseRequireStatement(p)
    [] curTokenIs(p, "EMIT") -> parseEmitStatement(p)
    [] p.curToken.Type \notin {"LET", "RETURN", "REQUIRE", "EMIT", "CONTRACT", "FUNCTION",
                               "CONSTRUCTOR", "EVENT"} ->
         parseExpressionStatement(p)

\* the for loop of parseBlockStatement
blockStatementLoop(p, tok, stmts) ==
  IF curTokenIs(p, "}") \/ curTokenIs(p, "EOF")
    THEN Parsed(p, BlockStatement(TokenOf(tok), stmts))
    ELSE Bind(parseStatement(p), LAMBDA s :
           blockStatementLoop(nextToken(s.p), tok, Append(stmts, s.node)))

parseBlockStatement(p) == blockStatementLoop(nextToken(p), p.curToken, <<>>)

\* the for loop of ParseProgram
RECURSIVE programLoop(_, _)
programLoop(p, stmts) ==
  IF curTokenIs(p, "EOF") THEN Parsed(p, stmts)
  ELSE Bind(parseStatement(p), LAMBDA s : programLoop(nextToken(s.p), Append(stmts, s.node)))

\* node: program.Statements
ParseProgram(p) == programLoop(p, <<>>)

\* interpreter.New(source) and the ParseProgram of Run
ParseSource(source) == ParseProgram(NewParser(NewLexer(source)))

\* ------------------------------------------------------------------ programs
\* The inputs of the machine are ASTs as ParseProgram builds them.  The parser
\* has no negative literals: -3 is the prefix operator applied to 3.
Lit(v) == IF v < 0 THEN PrefixExpression(Tok(0, 0), "-", IntegerLiteral(-v)) ELSE IntegerLiteral(v)

\* the k-th top-level statement being the expression statement e;
ES(k, e) == ExpressionStatement(Tok(k, 1), e)

Infix(l, op, r) == InfixExpression(Tok(0, 0), l, op, r)

Id(name) == Identifier(Tok(0, 0), name)

Ints == -MaxInt..MaxInt

\* a op b;
ArithProgram(a, op, b) == <<ES(1, Infix(Lit(a), op, Lit(b)))>>

\* (1 / 0 > 0)
DivZeroTest == Infix(Infix(Lit(1), "/", Lit(0)), ">", Lit(0))

\* l op r; for the logical operators, r a Boolean literal or (1 / 0 > 0)
LogicalProgram(l, op, r, crash) ==
  <<ES(1, Infix(BooleanLiteral(l), op, IF crash THEN DivZeroTest ELSE BooleanLiteral(r)))>>

\* one nested block holding the statements body, entered at nesting level j:
\* the consequence of an if, the alternative of an if, or the body of a
\* function that is called at once
Enter(kind, j, body) ==
  IF kind = "if" THEN
    <<ExpressionStatement(Tok(j + 1, 5),
        IfExpression(BooleanLiteral(TRUE), BlockStatement(Tok(j + 1, 6), body), NoNode))>>
  ELSE IF kind = "else" THEN
    <<ExpressionStatement(Tok(j + 1, 5),
        IfExpression(BooleanLiteral(FALSE), BlockStatement(Tok(j + 1, 6), <<>>),
                     BlockStatement(Tok(j + 1, 7), body)))>>
  ELSE
    <<LetStatement(Tok(j + 1, 5), "f", FunctionLiteral(<<>>, BlockStatement(Tok(j + 1, 6), body))),
      ExpressionStatement(Tok(j + 1, 8), CallExpression(Tok(j + 1, 8), Id("f"), <<>>))>>

\* the reference to y made after a block has been left
AfterRef == Identifier(Tok(9, 9), "y")

\* The statements of nesting level j of a block program of depth d (level 0 is
\* the top level): level ob binds y to 1, the innermost level d binds y to 2
\* and emits it, and level w refers to y after its inner block has been left:
\*   let y = 1; if (true) { let y = 2; emit inner(y); } y;     (d = 1, ob = w = 0)
RECURSIVE ScopeLevel(_, _, _, _, _)
ScopeLevel(j, d, w, ob, kind) ==
  (IF j = ob THEN <<LetStatement(Tok(j + 1, 1), "y", Lit(1))>> ELSE <<>>)
  \o (IF j = d
        THEN <<LetStatement(Tok(j + 1, 2), "y", Lit(2)),
               EmitStatement(Tok(j + 1, 3), "inner", <<Id("y")>>)>>
        ELSE Enter(kind, j, ScopeLevel(j + 1, d, w, ob, kind)))
  \o (IF j = w THEN <<ExpressionStatement(Tok(j + 1, 4), AfterRef)>> ELSE <<>>)

ScopeProgram(d, w, ob, kind) == ScopeLevel(0, d, w, ob, kind)

\* let adder = function(x) { return function(y) { return x + y; }; };
AdderDef ==
  LetStatement(Tok(1, 1), "adder",
    FunctionLiteral(<<"x">>, BlockStatement(Tok(1, 2), <<
      ReturnStatement(Tok(1, 3),
        FunctionLiteral(<<"y">>, BlockStatement(Tok(1, 4), <<
          ReturnStatement(Tok(1, 5), Infix(Id("x"), "+", Id("y")))>>)))>>)))

Call(fn, args) == CallExpression(Tok(0, 0), fn, args)

\* the x given to the adder a closure name stands for
AdderBase(which) == IF which = "a2" THEN 2 ELSE 3

\* let a2 = adder(2); let a3 = adder(3); followed by one call which(y); for
\* each <<which, y>> of calls
AdderProgram(calls) ==
  <<AdderDef,
    LetStatement(Tok(2, 1), "a2", Call(Id("adder"), <<Lit(AdderBase("a2"))>>)),
    LetStatement(Tok(3, 1), "a3", Call(Id("adder"), <<Lit(AdderBase("a3"))>>))>>
  \o [j \in 1..Len(calls) |-> ES(3 + j, Call(Id(calls[j][1]), <<Lit(calls[j][2])>>))]

\* adder(x)(y);
AdderDirect(x, y) == <<AdderDef, ES(2, Call(Call(Id("adder"), <<Lit(x)>>), <<Lit(y)>>))>>

\* the kinds of statement a generated statement list is made of
StmtKinds == {"let", "emit", "undef", "divzero", "blockfail", "blockok"}

Name(prefix, i) == prefix \o Itoa(i)

\* the i-th statement of a statement list, of the given kind:
\*   let a<i> = i;   emit E<i>(i);   u<i>;   i / 0;
\*   if (true) { emit B<i>(); v<i>; emit C<i>(); let b<i> = 1; }
\*   if (true) { emit B<i>(); let c<i> = 1; }
StmtOf(kind, i) ==
  IF kind = "let" THEN LetStatement(Tok(i, 1), Name("a", i), Lit(i))
  ELSE IF kind = "emit" THEN EmitStatement(Tok(i, 1), Name("E", i), <<Lit(i)>>)
  ELSE IF kind = "undef" THEN ExpressionStatement(Tok(i, 1), Identifier(Tok(i, 1), Name("u", i)))
  ELSE IF kind = "divzero" THEN ES(i, Infix(Lit(i), "/", Lit(0)))
  ELSE IF kind = "blockfail" THEN
    ES(i, IfExpression(BooleanLiteral(TRUE), BlockStatement(Tok(i, 2), <<
            EmitStatement(Tok(i, 3), Name("B", i), <<>>),
            ExpressionStatement(Tok(i, 4), Identifier(Tok(i, 4), Name("v", i))),
            EmitStatement(Tok(i, 5), Name("C", i), <<>>),
            LetStatement(Tok(i, 6), Name("b", i), Lit(1))>>), NoNode))
  ELSE
    ES(i, IfExpression(BooleanLiteral(TRUE), BlockStatement(Tok(i, 2), <<
            EmitStatement(Tok(i, 3), Name("B", i), <<>>),
            LetStatement(Tok(i, 6), Name("c", i), Lit(1))>>), NoNode))

StmtProgram(kinds) == [i \in 1..Len(kinds) |-> StmtOf(kinds[i], i)]

\* What ParseProgram returns for the text of StmtProgram(kinds) followed by a
\* stray ")": the statements, then an expression statement without expression
\* (parseExpression finds no prefix function and returns nil), and one
\* diagnostic
StrayParenProgram(kinds) ==
  StmtProgram(kinds) \o <<ExpressionStatement(Tok(Len(kinds) + 1, 1), NoNode)>>

StrayParenErrors == <<"no prefix parse function for ) found">>

\* What ParseProgram returns for other malformed texts:
\*   emit E(1); let y = ;      x = 1; emit E(x);      ) )
ParseFailures == <<
  [program |-> <<EmitStatement(Tok(1, 1), "E", <<Lit(1)>>),
                 LetStatement(Tok(1, 12), "y", NoNode)>>,
   errors |-> <<"no prefix parse function for ; found">>],
  [program |-> <<ExpressionStatement(Tok(1, 1), Id("x")),
                 ExpressionStatement(Tok(1, 3), NoNode),
                 ExpressionStatement(Tok(1, 5), Lit(1)),
                 EmitStatement(Tok(1, 8), "E", <<Id("x")>>)>>,
   errors |-> <<"no prefix parse function for = found">>],
  [program |-> <<ExpressionStatement(Tok(1, 1), NoNode),
                 ExpressionStatement(Tok(1, 3), NoNode)>>,
   errors |-> <<"no prefix parse function for ) found",
                "no prefix parse function for ) found">>] >>

\* the operands of the generated l + r programs, each with the text the
\* language documents for it
ConcatOperands == <<
  [node |-> StringLiteral("x="), text |-> "x=", str |-> TRUE],
  [node |-> StringLiteral(""), text |-> "", str |-> TRUE],
  [node |-> StringLiteral("y"), text |-> "y", str |-> TRUE],
  [node |-> Lit(5), text |-> "5", str |-> FALSE],
  [node |-> Lit(0), text |-> "0", str |-> FALSE],
  [node |-> Lit(-10), text |-> "-10", str |-> FALSE],
  [node |-> Lit(42), text |-> "42", str |-> FALSE],
  [node |-> BooleanLiteral(TRUE), text |-> "true", str |-> FALSE],
  [node |-> BooleanLiteral(FALSE), text |-> "false", str |-> FALSE],
  [node |-> ArrayLiteral(<<Lit(1), StringLiteral("a")>>), text |-> "[1, a]", str |-> FALSE],
  [node |-> IndexExpression(Tok(0, 0), ArrayLiteral(<<>>), Lit(0)), text |-> "null", str |-> FALSE],
  [node |-> FunctionLiteral(<<>>, BlockStatement(Tok(0, 0), <<>>)), text |-> "function ", str |-> FALSE] >>

ConcatProgram(l, r) == <<ES(1, Infix(ConcatOperands[l].node, "+", ConcatOperands[r].node))>>

\* [10, 20, ...][idx];  with n elements
ArrayProgram(n, idx) ==
  <<ES(1, IndexExpression(Tok(1, 1), ArrayLiteral([i \in 1..n |-> Lit(10 * i)]), Lit(idx)))>>

\* the keys of the generated map literals: 1, "1", true, -1, "a"
MapKeys == <<Lit(1), StringLiteral("1"), BooleanLiteral(TRUE), Lit(-1), StringLiteral("a")>>

\* {key: 100 + its number, ...}[lookup];  keys and lookup are numbers of MapKeys
MapProgram(keys, lookup) ==
  <<ES(1, IndexExpression(Tok(1, 1),
            HashLiteral(Tok(1, 1), [j \in 1..Len(keys) |-> <<MapKeys[keys[j]], Lit(100 + keys[j])>>]),
            MapKeys[lookup]))>>

\* the conditions of the generated require statements, each with the truth
\* value the language documents for it:  true  false  0  1  ""  1 > 2  a1
RequireConds == <<
  [node |-> BooleanLiteral(TRUE), truthy |-> TRUE],
  [node |-> BooleanLiteral(FALSE), truthy |-> FALSE],
  [node |-> Lit(0), truthy |-> FALSE],
  [node |-> Lit(1), truthy |-> TRUE],
  [node |-> StringLiteral(""), truthy |-> TRUE],
  [node |-> Infix(Lit(1), ">", Lit(2)), truthy |-> FALSE],
  [node |-> Id("a1"), truthy |-> TRUE] >>

\* the messages of the generated require statements:  "nope"  ""  5
RequireMessages == <<
  [node |-> StringLiteral("nope"), text |-> "nope", str |-> TRUE],
  [node |-> StringLiteral(""), text |-> "", str |-> TRUE],
  [node |-> Lit(5), text |-> "5", str |-> FALSE] >>

\* the position of the generated require statement
RequireTok == Tok(5, 1)

\* require(c, m); emit Inner();
RequireBody(c, m) ==
  <<RequireStatement(RequireTok, RequireConds[c].node, RequireMessages[m].node),
    EmitStatement(Tok(8, 1), "Inner", <<>>)>>

\* let a1 = 1; <the require and the emit of Inner, at top level, in the block
\* of an if, or in the body of a function that is called>; emit After();
RequireProgram(c, m, place) ==
  <<LetStatement(Tok(1, 1), "a1", Lit(1))>>
  \o (IF place = "top" THEN RequireBody(c, m)
      ELSE IF place = "if" THEN
        <<ES(2, IfExpression(BooleanLiteral(TRUE), BlockStatement(Tok(2, 2), RequireBody(c, m)),
                             NoNode))>>
      ELSE <<LetStatement(Tok(2, 1), "f",
                          FunctionLiteral(<<>>, BlockStatement(Tok(2, 2), RequireBody(c, m)))),
             ES(3, Call(Id("f"), <<>>))>>)
  \o <<EmitStatement(Tok(9, 1), "After", <<>>)>>

\* let factorial = function(n) {
\*   if (n == 0) { return 1; } else { return n * factorial(n - 1); } };
FactorialDef ==
  LetStatement(Tok(1, 1), "factorial",
    FunctionLiteral(<<"n">>, BlockStatement(Tok(1, 2), <<
      ExpressionStatement(Tok(1, 3),
        IfExpression(Infix(Id("n"), "==", Lit(0)),
          BlockStatement(Tok(1, 4), <<ReturnStatement(Tok(1, 5), Lit(1))>>),
          BlockStatement(Tok(1, 6), <<
            ReturnStatement(Tok(1, 7),
              Infix(Id("n"), "*",
                    Call(Id("factorial"), <<Infix(Id("n"), "-", Lit(1))>>)))>>)))>>)))

\* the definition of factorial, then factorial(n);
FactorialProgram(n) == <<FactorialDef, ES(2, Call(Id("factorial"), <<Lit(n)>>))>>

\* the characters of a source text written as a string
Text(s) == [j \in 1..Len(s) |-> SubSeq(s, j, j)]

\* The expressions of the precedence programs, over the operands a, b, c, d:
\* the text as written, the same text with every grouping spelled out in
\* parentheses, and the tree of that grouping.
PrecedenceForms == 1..11

FormText(f, a, b, c, d) ==
  CASE f = 1 -> Itoa(a) \o " + " \o Itoa(b) \o " * " \o Itoa(c) \o ";"
    [] f = 2 -> Itoa(a) \o " - " \o Itoa(b) \o " - " \o Itoa(c) \o ";"
    [] f = 3 -> Itoa(a) \o " / " \o Itoa(b) \o " * " \o Itoa(c) \o ";"
    [] f = 4 -> "-" \o Itoa(a) \o " * " \o Itoa(b) \o ";"
    [] f = 5 -> Itoa(a) \o " < " \o Itoa(b) \o " == " \o Itoa(c) \o " < " \o Itoa(d) \o ";"
    [] f = 6 -> "(" \o Itoa(a) \o " + " \o Itoa(b) \o ") * " \o Itoa(c) \o ";"
    [] f = 7 -> Itoa(a) \o " * " \o Itoa(b) \o " + " \o Itoa(c) \o ";"
    [] f = 8 -> Itoa(a) \o " != " \o Itoa(b) \o " > " \o Itoa(c) \o ";"
    [] f = 9 -> Itoa(a) \o " < " \o Itoa(b) \o " + " \o Itoa(c) \o ";"
    [] f = 10 -> "!" \o Itoa(a) \o " == " \o Itoa(b) \o ";"
    [] f = 11 -> Itoa(a) \o " - (" \o Itoa(b) \o " - " \o Itoa(c) \o ");"

FormExplicit(f, a, b, c, d) ==
  CASE f = 1 -> "(" \o Itoa(a) \o " + (" \o Itoa(b) \o " * " \o Itoa(c) \o "));"
    [] f = 2 -> "((" \o Itoa(a) \o " - " \o Itoa(b) \o ") - " \o Itoa(c) \o ");"
    [] f = 3 -> "((" \o Itoa(a) \o " / " \o Itoa(b) \o ") * " \o Itoa(c) \o ");"
    [] f = 4 -> "((-" \o Itoa(a) \o ") * " \o Itoa(b) \o ");"
    [] f = 5 -> "((" \o Itoa(a) \o " < " \o Itoa(b) \o ") == (" \o Itoa(c) \o " < "
                  \o Itoa(d) \o "));"
    [] f = 6 -> "((" \o Itoa(a) \o " + " \o Itoa(b) \o ") * " \o Itoa(c) \o ");"
    [] f = 7 -> "((" \o Itoa(a) \o " * " \o Itoa(b) \o ") + " \o Itoa(c) \o ");"
    [] f = 8 -> "(" \o Itoa(a) \o " != (" \o Itoa(b) \o " > " \o Itoa(c) \o "));"
    [] f = 9 -> "(" \o Itoa(a) \o " < (" \o Itoa(b) \o " + " \o Itoa(c) \o "));"
    [] f = 10 -> "((!" \o Itoa(a) \o ") == " \o Itoa(b) \o ");"
    [] f = 11 -> "(" \o Itoa(a) \o " - (" \o Itoa(b) \o " - " \o Itoa(c) \o "));"

FormTree(f, a, b, c, d) ==
  CASE f = 1 -> Infix(Lit(a), "+", Infix(Lit(b), "*", Lit(c)))
    [] f = 2 -> Infix(Infix(Lit(a), "-", Lit(b)), "-", Lit(c))
    [] f = 3 -> Infix(Infix(Lit(a), "/", Lit(b)), "*", Lit(c))
    [] f = 4 -> Infix(PrefixExpression(Tok(0, 0), "-", Lit(a)), "*", Lit(b))
    [] f = 5 -> Infix(Infix(Lit(a), "<", Lit(b)), "==", Infix(Lit(c), "<", Lit(d)))
    [] f = 6 -> Infix(Infix(Lit(a), "+", Lit(b)), "*", Lit(c))
    [] f = 7 -> Infix(Infix(Lit(a), "*", Lit(b)), "+", Lit(c))
    [] f = 8 -> Infix(Lit(a), "!=", Infix(Lit(b), ">", Lit(c)))
    [] f = 9 -> Infix(Lit(a), "<", Infix(Lit(b), "+", Lit(c)))
    [] f = 10 -> Infix(PrefixExpression(Tok(0, 0), "!", Lit(a)), "==", Lit(b))
    [] f = 11 -> Infix(Lit(a), "-", Infix(Lit(b), "-", Lit(c)))

\* Source texts with and without syntax errors; malformed says whether the
\* text departs from the grammar (an unbalanced bracket, a missing operand,
\* name, separator or keyword part, a stray or unknown symbol, an unterminated
\* string).
Src(text, malformed) == [src |-> text, malformed |-> malformed]

SyntaxTexts ==
  << Src(Text(""), FALSE),
     Src(Text("1 + 2;"), FALSE),
     Src(Text("let x = 1; x;"), FALSE),
     Src(Text("if (true) { 1; } else { 2; }"), FALSE),
     Src(Text("if (1 > 2) { 1 }"), FALSE),
     Src(Text("emit A(1, 2);"), FALSE),
     Src(Text("require(true, \"m\");"), FALSE),
     Src(Text("return 1;"), FALSE),
     Src(Text("let f = 1; f(1)[0];"), FALSE),
     Src(Text("// c\n1; /* d */ 2;"), FALSE),
     Src(Text("(1 + 2;"), TRUE),
     Src(Text("1 + ;"), TRUE),
     Src(Text("1 + * 2;"), TRUE),
     Src(Text("let = 1;"), TRUE),
     Src(Text("let x 1;"), TRUE),
     Src(Text("if (true) 1;"), TRUE),
     Src(Text("if true { 1; }"), TRUE),
     Src(Text("if (true) { 1; } else 2;"), TRUE),
     Src(Text("x(1, ;"), TRUE),
     Src(Text("x(1 2);"), TRUE),
     Src(Text("x[1;"), TRUE),
     Src(Text("1 @ 2;"), TRUE),
     Src(Text("1 & 2;"), TRUE),
     Src(Text("1; )"), TRUE),
     Src(Text("1; }"), TRUE),
     Src(Text("else { 1; }"), TRUE),
     Src(Text("require(true);"), TRUE),
     Src(Text("emit A(1;"), TRUE),
     Src(Text("emit (1);"), TRUE),
     Src(Text("x = 1;"), TRUE),
     Src(Text("if (true) { 1;"), TRUE),
     Src(Text("let s = \"abc;"), TRUE),
     Src(Text("1 2;"), TRUE),
     Src(Text("1; ") \o <<NUL>> \o Text(" ) ) )"), TRUE) >>

\* a return of v at top level, directly or inside an if block, between an
\* emit before it and, when more, an emit and an expression statement after it
TopReturnText(v, place, more) ==
  "emit Before(); "
  \o (IF place = "direct" THEN "return " \o Itoa(v) \o "; "
      ELSE "if (true) { return " \o Itoa(v) \o "; } ")
  \o (IF more THEN "emit After(); " \o Itoa(v + 1) \o ";" ELSE "")

\* emit name();
Emit(name) == EmitStatement(Tok(0, 0), name, <<>>)

\* The statements that return x from inside depth nested if expressions, each
\* followed by an emit that must not run: at every level the return lies in
\* the consequence (branch "then", under x > 0) or in the alternative (branch
\* "else", under 0 > x).
RECURSIVE ReturnNest(_, _)
ReturnNest(depth, branch) ==
  IF depth = 0
    THEN <<ReturnStatement(Tok(0, 0), Id("x")), Emit("Dead")>>
    ELSE << ExpressionStatement(Tok(0, 0),
              IF branch = "then"
                THEN IfExpression(Infix(Id("x"), ">", Lit(0)),
                                  BlockStatement(Tok(0, 0), ReturnNest(depth - 1, branch)),
                                  NoNode)
                ELSE IfExpression(Infix(Lit(0), ">", Id("x")),
                                  BlockStatement(Tok(0, 0), <<Emit("Dead")>>),
                                  BlockStatement(Tok(0, 0), ReturnNest(depth - 1, branch)))),
            Emit("Dead") >>

\* let f = function(x) { emit Enter(); <the nest> return 0; };
\* let r = f(v); emit Caller(); r;
FunctionReturnProgram(v, depth, branch) ==
  << LetStatement(Tok(1, 1), "f",
       FunctionLiteral(<<"x">>,
         BlockStatement(Tok(1, 2),
           <<Emit("Enter")>> \o ReturnNest(depth, branch)
             \o <<ReturnStatement(Tok(0, 0), Lit(0))>>))),
     LetStatement(Tok(2, 1), "r", Call(Id("f"), <<Lit(v)>>)),
     EmitStatement(Tok(3, 1), "Caller", <<>>),
     ES(4, Id("r")) >>

\* The ways a variable x is used after it has been bound: as the left or the
\* right operand of an infix operator, as the operand of a prefix operator, or
\* as the function of a call.
NoValueUses == {"left", "right", "minus", "bang", "callee"}

\* let x = if (false) { 1 }; followed by a use of x
NoValueText(use) ==
  "let x = if (false) { 1 }; "
  \o CASE use = "left" -> "x + 1;"
       [] use = "right" -> "1 + x;"
       [] use = "minus" -> "-x;"
       [] use = "bang" -> "!x;"
       [] use = "callee" -> "x();"

\* let f = function() { }; let x = f(); followed by a use of x
NoValueProgram(use) ==
  << LetStatement(Tok(1, 1), "f", FunctionLiteral(<<>>, BlockStatement(Tok(1, 2), <<>>))),
     LetStatement(Tok(2, 1), "x", Call(Id("f"), <<>>)),
     ES(3, CASE use = "left" -> Infix(Id("x"), "+", Lit(1))
             [] use = "right" -> Infix(Lit(1), "+", Id("x"))
             [] use = "minus" -> PrefixExpression(Tok(0, 0), "-", Id("x"))
             [] use = "bang" -> PrefixExpression(Tok(0, 0), "!", Id("x"))
             [] use = "callee" -> Call(Id("x"), <<>>)) >>

\* The literal operands of the equality programs, as written, and the kind of
\* Object each evaluates to.
EqOperands == {"true", "false", "1", "2", "\"a\"", "\"b\""}

OperandKind(text) ==
  CASE text \in {"true", "false"} -> "BOOLEAN"
    [] text \in {"1", "2"} -> "INTEGER"
    [] OTHER -> "STRING"

\* l op r;
EqualityText(l, op, r) == l \o " " \o op \o " " \o r \o ";"

\* a <= b;  and  a >= b;
CompareText(a, op, b) == Itoa(a) \o " " \o op \o " " \o Itoa(b) \o ";"

\* The Integer literals written with a leading zero digit, and the second
\* operands of the sums.
ZeroLed == {"01", "007", "00"}

PhoneNumbers == {"5551234", "12"}

\* let phoneCode = code; let phoneNumber = number; phoneCode + phoneNumber;
PhoneText(code, number) ==
  "let phoneCode = " \o code \o "; let phoneNumber = " \o number
  \o "; phoneCode + phoneNumber;"

\* The arguments of the emit programs: Integer literals and a name that is
\* bound nowhere, whose evaluation fails.
EmitArguments == {"1", "2", "missing"}

\* emit Transfer(a, b);
EmitText(a, b) == "emit Transfer(" \o a \o ", " \o b \o ");"

\* return v;  or, wraps times around it,  return if (true) { ... };
RECURSIVE ReturnOfIf(_, _)
ReturnOfIf(v, wraps) ==
  ReturnStatement(Tok(0, 0),
    IF wraps = 0 THEN Lit(v)
    ELSE IfExpression(BooleanLiteral(TRUE),
                      BlockStatement(Tok(0, 0), <<ReturnOfIf(v, wraps - 1)>>),
                      NoNode))

\* let f = function() { <the return> }; f() + 1;
ReturnOfIfProgram(v, wraps) ==
  << LetStatement(Tok(1, 1), "f",
       FunctionLiteral(<<>>, BlockStatement(Tok(1, 2), <<ReturnOfIf(v, wraps)>>))),
     ES(2, Infix(Call(Id("f"), <<>>), "+", Lit(1))) >>

\* Map literals of two entries: the same key written twice, {1: 10, 1: 20}[1];
\* two entries whose values fail, {1: p, 2: q}; two entries that differ and
\* evaluate, {1: 10, 2: 20}[2].
MapOrderKinds == {"same-key", "two-errors", "plain"}

MapOrderProgram(kind) ==
  CASE kind = "same-key" ->
         <<ES(1, IndexExpression(Tok(1, 1),
                   HashLiteral(Tok(1, 1), << <<Lit(1), Lit(10)>>, <<Lit(1), Lit(20)>> >>),
                   Lit(1)))>>
    [] kind = "two-errors" ->
         <<ES(1, HashLiteral(Tok(1, 1), << <<Lit(1), Id("p")>>, <<Lit(2), Id("q")>> >>))>>
    [] kind = "plain" ->
         <<ES(1, IndexExpression(Tok(1, 1),
                   HashLiteral(Tok(1, 1), << <<Lit(1), Lit(10)>>, <<Lit(2), Lit(20)>> >>),
                   Lit(2)))>>

\* Integer literals, with and without leading zeros
IntegerTexts == {"0", "7", "10", "123", "00", "07", "010", "08", "09", "0010"}

\* Conditions of every kind of value, each with the truth value the language
\* documents for it:  true  false  0  1  -1  ""  "a"  []  [0]  {}
\* function() { }  [][0] (Null)
TruthConds == <<
  [node |-> BooleanLiteral(TRUE), kind |-> "BOOLEAN", truthy |-> TRUE],
  [node |-> BooleanLiteral(FALSE), kind |-> "BOOLEAN", truthy |-> FALSE],
  [node |-> Lit(0), kind |-> "INTEGER", truthy |-> FALSE],
  [node |-> Lit(1), kind |-> "INTEGER", truthy |-> TRUE],
  [node |-> Lit(-1), kind |-> "INTEGER", truthy |-> TRUE],
  [node |-> StringLiteral(""), kind |-> "STRING", truthy |-> TRUE],
  [node |-> StringLiteral("a"), kind |-> "STRING", truthy |-> TRUE],
  [node |-> ArrayLiteral(<<>>), kind |-> "ARRAY", truthy |-> TRUE],
  [node |-> ArrayLiteral(<<Lit(0)>>), kind |-> "ARRAY", truthy |-> TRUE],
  [node |-> HashLiteral(Tok(1, 1), <<>>), kind |-> "HASH", truthy |-> TRUE],
  [node |-> FunctionLiteral(<<>>, BlockStatement(Tok(1, 1), <<>>)), kind |-> "FUNCTION",
   truthy |-> TRUE],
  [node |-> IndexExpression(Tok(1, 1), ArrayLiteral(<<>>), Lit(0)), kind |-> "NULL",
   truthy |-> TRUE] >>

\* let c = <the condition>; then
\*   if (c) { emit Then(); } else { emit Else(); }    or
\*   require(c, "no"); emit Passed();
TruthProgram(c, construct) ==
  <<LetStatement(Tok(1, 1), "c", TruthConds[c].node)>>
  \o (IF construct = "if"
        THEN <<ES(2, IfExpression(Id("c"),
                                  BlockStatement(Tok(2, 2), <<Emit("Then")>>),
                                  BlockStatement(Tok(2, 3), <<Emit("Else")>>)))>>
        ELSE <<RequireStatement(Tok(2, 1), Id("c"), StringLiteral("no")), Emit("Passed")>>)

\* the numbers in MapKeys of the keys 1, "1" and true
KindKeys == {1, 2, 3}

\* let m = {key: 100 + its number, ...}; m[lookup];  keys and lookup are
\* numbers of MapKeys
KindsProgram(keys, lookup) ==
  << LetStatement(Tok(1, 1), "m",
       HashLiteral(Tok(1, 1),
                   [j \in 1..Len(keys) |-> <<MapKeys[keys[j]], Lit(100 + keys[j])>>])),
     ES(2, IndexExpression(Tok(2, 1), Id("m"), MapKeys[lookup])) >>

\* ------------------------------------------------------------------ the machine
VARIABLES
  input,        \* which program this run was given (its family and parameters)
  program,      \* the *parser.Program ParseProgram returned: its statements
  parseErrors,  \* p.Errors() after ParseProgram
  pc,           \* "source" before New, "new" before Run's evalProgram, "eval"
                \* inside evalProgram, "done", "crashed"; "lexing" for a lexer
                \* that is used on its own
  k,            \* the index of the next statement of evalProgram's loop
  st,           \* the interpreter's state (see the evaluator)
  result,       \* evalProgram's result variable
  err,          \* the error Run returned (NoErr for nil)
  lexer,        \* the lexer l of the parser
  toks          \* the tokens l.NextToken has returned so far

vars == <<input, program, parseErrors, pc, k, st, result, err, lexer, toks>>

\* New(source): i.env is a fresh global environment
NewState(oracle) ==
  [heap |-> <<NewEnvironment>>, env |-> 1, nobj |-> 0, out |-> <<>>, trace |-> <<>>,
   exits |-> <<>>, oracle |-> oracle]

\* a program given as the AST and the diagnostics ParseProgram returned; no
\* source text is kept for it, the lexer is the one of the empty text
InitWith(in, prog, errs, oracle) ==
  /\ input = in
  /\ program = prog
  /\ parseErrors = errs
  /\ pc = "new"
  /\ k = 1
  /\ st = NewState(oracle)
  /\ result = NIL
  /\ err = NoErr
  /\ lexer = NewLexer(<<>>)
  /\ toks = <<>>

\* a program given as its source text in.src, before New and Run
InitSource(in) ==
  /\ input = in
  /\ program = <<>>
  /\ parseErrors = <<>>
  /\ pc = "source"
  /\ k = 1
  /\ st = NewState(<<>>)
  /\ result = NIL
  /\ err = NoErr
  /\ lexer = NewLexer(in.src)
  /\ toks = <<>>

InitArith ==
  \E a \in Ints, b \in Ints, op \in {"+", "-", "*", "/"} :
    InitWith([fam |-> "arith", a |-> a, op |-> op, b |-> b], ArithProgram(a, op, b), <<>>, <<>>)

InitLogical ==
  \E l \in BOOLEAN, r \in BOOLEAN, crash \in BOOLEAN, op \in {"&&", "||"} :
    InitWith([fam |-> "logical", l |-> l, op |-> op, r |-> r, crash |-> crash],
             LogicalProgram(l, op, r, crash), <<>>, <<>>)

InitScope ==
  \E d \in 1..MaxDepth, kind \in {"if", "else", "fn"} :
    \E w \in 0..(d - 1), ob \in -1..(d - 1) :
      InitWith([fam |-> "scope", d |-> d, w |-> w, ob |-> ob, kind |-> kind],
               ScopeProgram(d, w, ob, kind), <<>>, <<>>)

InitAdder ==
  \/ \E n \in 0..MaxCalls : \E calls \in [1..n -> {"a2", "a3"} \X (0..2)] :
       InitWith([fam |-> "adder", calls |-> calls], AdderProgram(calls), <<>>, <<>>)
  \/ InitWith([fam |-> "adderDirect", x |-> 5, y |-> 10], AdderDirect(5, 10), <<>>, <<>>)

InitStmts ==
  \E n \in 1..MaxStmts : \E kinds \in [1..n -> StmtKinds] :
    \/ InitWith([fam |-> "stmts", kinds |-> kinds], StmtProgram(kinds), <<>>, <<>>)
    \/ InitWith([fam |-> "strayParen", kinds |-> kinds], StrayParenProgram(kinds),
                StrayParenErrors, <<>>)

InitParseFailure ==
  \E j \in 1..Len(ParseFailures) :
    InitWith([fam |-> "parseFailure", j |-> j], ParseFailures[j].program,
             ParseFailures[j].errors, <<>>)

InitConcat ==
  \E l \in 1..Len(ConcatOperands), r \in 1..Len(ConcatOperands) :
    InitWith([fam |-> "concat", l |-> l, r |-> r], ConcatProgram(l, r), <<>>, <<>>)

InitArray ==
  \E n \in 0..MaxArray, idx \in -2..(MaxArray + 1) :
    InitWith([fam |-> "array", n |-> n, idx |-> idx], ArrayProgram(n, idx), <<>>, <<>>)

InitMap ==
  \E n \in 0..MaxPairs, lookup \in 1..Len(MapKeys), oracle \in [1..2 -> BOOLEAN] :
    \E keys \in [1..n -> 1..Len(MapKeys)] :
      /\ \A i, j \in 1..n : keys[i] = keys[j] => i = j
      /\ InitWith([fam |-> "map", keys |-> keys, lookup |-> lookup],
                  MapProgram(keys, lookup), <<>>, oracle)

InitRequire ==
  \E c \in 1..Len(RequireConds), m \in 1..Len(RequireMessages), place \in {"top", "if", "fn"} :
    InitWith([fam |-> "require", c |-> c, m |-> m, place |-> place],
             RequireProgram(c, m, place), <<>>, <<>>)

InitFactorial ==
  \E n \in 0..MaxFact :
    InitWith([fam |-> "factorial", n |-> n], FactorialProgram(n), <<>>, <<>>)

InitPrecedence ==
  \E f \in PrecedenceForms, a \in 1..MaxInt, b \in 1..MaxInt, c \in 1..MaxInt, d \in 1..2 :
    InitSource([fam |-> "precedence", form |-> f, a |-> a, b |-> b, c |-> c, d |-> d,
                src |-> Text(FormText(f, a, b, c, d))])

InitSyntax ==
  \E i \in 1..Len(SyntaxTexts) :
    InitSource([fam |-> "syntax", i |-> i, src |-> SyntaxTexts[i].src])

InitTopReturn ==
  \E v \in 1..MaxInt, place \in {"direct", "if"}, more \in BOOLEAN :
    InitSource([fam |-> "top-return", v |-> v, place |-> place, more |-> more,
                src |-> Text(TopReturnText(v, place, more))])

InitFunctionReturn ==
  \E v \in 1..MaxInt, depth \in 0..MaxDepth, branch \in {"then", "else"} :
    InitWith([fam |-> "fn-return", v |-> v, depth |-> depth, branch |-> branch],
             FunctionReturnProgram(v, depth, branch), <<>>, <<>>)

InitNoValue ==
  \/ \E use \in NoValueUses :
       InitSource([fam |-> "no-value", from |-> "if", use |-> use,
                   src |-> Text(NoValueText(use))])
  \/ \E use \in NoValueUses :
       InitWith([fam |-> "no-value", from |-> "function", use |-> use],
                NoValueProgram(use), <<>>, <<>>)

InitEquality ==
  \E l \in EqOperands, r \in EqOperands, op \in {"==", "!="} :
    InitSource([fam |-> "equality", l |-> l, op |-> op, r |-> r,
                src |-> Text(EqualityText(l, op, r))])

InitCompare ==
  \E a \in 0..MaxInt, b \in 0..MaxInt, op \in {"<=", ">="} :
    InitSource([fam |-> "compare", a |-> a, op |-> op, b |-> b,
                src |-> Text(CompareText(a, op, b))])

InitPhone ==
  \/ \E code \in ZeroLed, number \in PhoneNumbers :
       InitSource([fam |-> "phone", code |-> code, number |-> number,
                   src |-> Text(PhoneText(code, number))])
  \/ InitSource([fam |-> "phone", code |-> "5", number |-> "10",
                 src |-> Text(PhoneText("5", "10"))])

InitEmit ==
  \E a \in EmitArguments, b \in EmitArguments :
    InitSource([fam |-> "emit", a |-> a, b |-> b, src |-> Text(EmitText(a, b))])

InitReturnOfIf ==
  \E v \in 1..MaxInt, wraps \in 0..MaxDepth :
    InitWith([fam |-> "return-of-if", v |-> v, wraps |-> wraps],
             ReturnOfIfProgram(v, wraps), <<>>, <<>>)

InitMapOrder ==
  \E kind \in MapOrderKinds, oracle \in [1..2 -> BOOLEAN] :
    InitWith([fam |-> "map-order", kind |-> kind], MapOrderProgram(kind), <<>>, oracle)

InitLiteral ==
  \E lit \in IntegerTexts :
    InitSource([fam |-> "literal", lit |-> lit, src |-> Text(lit \o ";")])

InitTruth ==
  \E c \in 1..Len(TruthConds), construct \in {"if", "require"} :
    InitWith([fam |-> "truth", c |-> c, construct |-> construct],
             TruthProgram(c, construct), <<>>, <<>>)

InitKinds ==
  \E n \in 0..Cardinality(KindKeys), lookup \in KindKeys, oracle \in [1..2 -> BOOLEAN] :
    \E keys \in [1..n -> KindKeys] :
      /\ \A i, j \in 1..n : keys[i] = keys[j] => i = j
      /\ InitWith([fam |-> "kinds", keys |-> keys, lookup |-> lookup],
                  KindsProgram(keys, lookup), <<>>, oracle)

Init ==
  \/ InitArith
  \/ InitLogical
  \/ InitScope
  \/ InitAdder
  \/ InitStmts
  \/ InitParseFailure
  \/ InitConcat
  \/ InitArray
  \/ InitMap
  \/ InitRequire
  \/ InitFactorial
  \/ InitPrecedence
  \/ InitSyntax
  \/ InitTopReturn
  \/ InitFunctionReturn
  \/ InitNoValue
  \/ InitEquality
  \/ InitCompare
  \/ InitPhone
  \/ InitEmit
  \/ InitReturnOfIf
  \/ InitMapOrder
  \/ InitLiteral
  \/ InitTruth
  \/ InitKinds

\* New(source) builds the parser on the lexer, Run calls ParseProgram
RunParse ==
  /\ pc = "source"
  /\ \E r \in {ParseProgram(NewParser(lexer))} :
       /\ program' = r.node
       /\ parseErrors' = r.p.errors
       /\ lexer' = r.p.l
       /\ toks' = r.p.toks
  /\ pc' = "new"
  /\ UNCHANGED <<input, k, st, result, err>>

\* Run, when the parser recorded diagnostics: print them, return a SyntaxError
RunParseFailed ==
  /\ pc = "new"
  /\ Len(parseErrors) # 0
  /\ st' = [st EXCEPT !.out = @ \o [j \in 1..Len(parseErrors) |-> "Parser error: " \o parseErrors[j]]]
  /\ err' = NewSyntaxError("Failed to parse program", 0, 0)
  /\ pc' = "done"
  /\ UNCHANGED <<lexer, toks, input, program, parseErrors, k, result>>

\* a Run that evaluates the program whatever the parser recorded
RunEvalAnyway ==
  /\ pc = "new"
  /\ pc' = "eval"
  /\ UNCHANGED <<lexer, toks, input, program, parseErrors, k, st, result, err>>

\* Run, when the parser recorded none: enter evalProgram
RunEval ==
  /\ pc = "new"
  /\ Len(parseErrors) = 0
  /\ pc' = "eval"
  /\ UNCHANGED <<lexer, toks, input, program, parseErrors, k, st, result, err>>

\* an evalProgram that records a statement's error and goes on to the next
EvalStepNoHalt ==
  /\ pc = "eval"
  /\ k <= Len(program)
  /\ \E r \in {evalStatement(program[k], st)} :
       /\ st' = r.st
       /\ result' = IF r.err # NoErr THEN NIL ELSE r.val
       /\ err' = IF r.err # NoErr THEN r.err ELSE err
       /\ pc' = IF r.err = Panic THEN "crashed" ELSE "eval"
       /\ k' = k + 1
  /\ UNCHANGED <<lexer, toks, input, program, parseErrors>>

\* one iteration of evalProgram's loop; an error ends evalProgram and Run
EvalStep ==
  /\ pc = "eval"
  /\ k <= Len(program)
  /\ \E r \in {evalStatement(program[k], st)} :
       /\ st' = r.st
       /\ IF r.err # NoErr
            THEN /\ result' = NIL
                 /\ err' = r.err
                 /\ pc' = IF r.err = Panic THEN "crashed" ELSE "done"
                 /\ k' = k
            ELSE /\ result' = r.val
                 /\ err' = NoErr
                 /\ pc' = "eval"
                 /\ k' = k + 1
  /\ UNCHANGED <<lexer, toks, input, program, parseErrors>>

\* the loop is over: evalProgram returns result, Run prints it when not nil
RunFinish ==
  /\ pc = "eval"
  /\ k > Len(program)
  /\ IF result.t = "nil" THEN pc' = "done" /\ st' = st /\ err' = err
     ELSE IF InspectPanics(result) THEN pc' = "crashed" /\ st' = st /\ err' = Panic
     ELSE pc' = "done" /\ st' = Printf(st, "Result: " \o Inspect(result)) /\ err' = err
  /\ UNCHANGED <<lexer, toks, input, program, parseErrors, k, result>>

Next == RunParse \/ RunParseFailed \/ RunEval \/ EvalStep \/ RunFinish

Spec == Init /\ [][Next]_vars

\* ------------------------------------------------------------------ the lexer on its own
\* the characters of the texts: a letter, a digit, a space, a newline, an
\* operator, the two characters of the comments, a quote, the rune 0
LexAlphabet == {"a", "1", " ", "\n", "+", "/", "*", "\"", NUL}

\* Source texts whose tokens end at the end of the input, or lie on several
\* lines, after comments and after a string that holds a newline
LexWords ==
  {"abc", "let", "5", "abc ", "let ", "5 ", "a1", "x = 12", "a\nb", "a +\n b",
   "// c\nab;", "/* c\n */ ab;", "\"a\nb\" c;", "(a)\n{1}", "a == b\n!= c"}

\* lexer.New(src)
LexerStart(src) ==
  /\ input = [fam |-> "lexer", src |-> src]
  /\ lexer = NewLexer(src)
  /\ toks = <<>>
  /\ pc = "lexing"
  /\ program = <<>>
  /\ parseErrors = <<>>
  /\ k = 1
  /\ st = NewState(<<>>)
  /\ result = NIL
  /\ err = NoErr

\* lexer.New(src) for every text src of at most MaxText characters, and for the
\* texts of LexWords
InitLexer ==
  \/ \E n \in 0..MaxText : \E src \in [1..n -> LexAlphabet] : LexerStart(src)
  \/ \E w \in LexWords : LexerStart(Text(w))

\* one call of l.NextToken()
NextTokenStep ==
  /\ pc = "lexing"
  /\ Len(toks) < MaxTokens
  /\ \E r \in {NextToken(lexer)} :
       /\ lexer' = r.l
       /\ toks' = Append(toks, r.tok)
  /\ UNCHANGED <<input, program, parseErrors, pc, k, st, result, err>>

LexerNext == NextTokenStep

LexerSpec == InitLexer /\ [][LexerNext]_vars

\* ------------------------------------------------------------------ the claims
\* Run has returned, or the host has crashed
Ended == pc \in {"done", "crashed"}

\* the program evaluated to the Integer v and Run reported no error
GaveInteger(v) ==
  pc = "done" /\ err = NoErr /\ result.t = "INTEGER" /\ result.Value = v

\* the program evaluated to the String s and Run reported no error
GaveString(s) ==
  pc = "done" /\ err = NoErr /\ result.t = "STRING" /\ result.Value = s

\* the lines of the standard output
Printed == {st.out[j] : j \in 1..Len(st.out)}

\* C1: && and || short-circuit.  When the left operand of && is false, or the
\* left operand of || is true, the right operand is not evaluated (an error
\* it would raise does not occur) and the expression has the left operand's
\* Boolean value.
C1_ShortCircuit ==
  (/\ input.fam = "logical"
   /\ Ended
   /\ \/ input.op = "&&" /\ ~input.l
      \/ input.op = "||" /\ input.l)
  => /\ pc = "done"
     /\ err = NoErr
     /\ result.t = "BOOLEAN"
     /\ result.Value = input.l

\* the reference that follows the block at level w is covered by no binding:
\* the program binds y at no level, or only deeper than the reference
Unbound(in) == in.ob = -1 \/ in.w < in.ob

\* C2: a name bound by let inside a block is not visible once the block has
\* ended, at every nesting depth: a reference to it after the block, with no
\* binding of the name in an enclosing scope, makes Run fail with the
\* ReferenceError "Identifier not found: <name>" (and inside the block the
\* name was visible: the block emitted its value).
C2_BlockLetNotVisible ==
  (input.fam = "scope" /\ Unbound(input) /\ Ended)
  => /\ pc = "done"
     /\ err = NewReferenceError("Identifier not found: y", AfterRef.Token.Line,
                                AfterRef.Token.Column)
     /\ result = NIL
     /\ "  Argument: 2" \in Printed

\* C2's case: the innermost block of a nest of MaxDepth blocks binds the name,
\* the reference follows that block one level up, and Run has returned
C2_Witness ==
  /\ input.fam = "scope"
  /\ input.d = MaxDepth
  /\ input.w = MaxDepth - 1
  /\ input.ob = -1
  /\ pc = "done"
  /\ err.Type = "ReferenceError"
  /\ "  Argument: 2" \in Printed

\* the reference that follows the block at level w sees the binding made at
\* the enclosing level ob
Shadowed(in) == in.ob >= 0 /\ in.ob <= in.w

\* C3: a let inside a block that names a variable of an enclosing scope makes
\* a new binding for the block only.  The enclosing binding is never changed
\* (no step of the interpreter changes the value a scope already holds for
\* the name), the block sees its own value, and after the block the name has
\* the enclosing value again.
C3_ShadowingLeavesOuter ==
  /\ [](input.fam = "scope" /\ Shadowed(input) /\ Ended
        => GaveInteger(1) /\ "  Argument: 2" \in Printed)
  /\ [][input.fam = "scope" =>
          \A e \in 1..Len(st.heap) :
            "y" \in DOMAIN st.heap[e].store =>
              st'.heap[e].store["y"] = st.heap[e].store["y"]]_vars

\* C3's case: an outer let, a block two levels deeper that shadows it, and
\* the reference after that block evaluated to the outer value
C3_Witness ==
  /\ input.fam = "scope"
  /\ input.d = MaxDepth
  /\ input.ob = 0
  /\ input.w = MaxDepth - 1
  /\ GaveInteger(1)
  /\ "  Argument: 2" \in Printed
  /\ \E e \in 2..Len(st.heap) :
       "y" \in DOMAIN st.heap[e].store /\ st.heap[e].store["y"].Value = 2


\* C4: functions are closures.  adder(5)(10) is the Integer 15, and with
\* a2 = adder(2) and a3 = adder(3) every call a2(y) is the Integer 2 + y and
\* every call a3(y) the Integer 3 + y, whatever the number and the order of
\* the calls.
C4_ClosuresCapture ==
  /\ (input.fam = "adderDirect" /\ Ended) => GaveInteger(input.x + input.y)
  /\ input.fam = "adder" =>
       /\ pc # "crashed"
       /\ err = NoErr
       /\ k > 4 =>
            /\ result.t = "INTEGER"
            /\ result.Value = AdderBase(input.calls[k - 4][1]) + input.calls[k - 4][2]

\* a statement of this kind fails when it is evaluated
Fails(kind) == kind \in {"undef", "divzero", "blockfail"}

\* the number of the first failing statement of a statement list, 0 if none
FirstFail(kinds) ==
  IF \E i \in 1..Len(kinds) : Fails(kinds[i])
    THEN CHOOSE i \in 1..Len(kinds) :
           Fails(kinds[i]) /\ \A j \in 1..(i - 1) : ~Fails(kinds[j])
  ELSE 0

\* the error the language documents for the failing statement i of the kind
ExpectedError(kind, i) ==
  IF kind = "undef" THEN NewReferenceError("Identifier not found: " \o Name("u", i), i, 1)
  ELSE IF kind = "blockfail" THEN NewReferenceError("Identifier not found: " \o Name("v", i), i, 4)
  ELSE NewRuntimeError("Division by zero", 0, 0)

\* every name bound in some environment
BoundNames == UNION {DOMAIN st.heap[e].store : e \in 1..Len(st.heap)}

\* C5: the first error wins, at top level and inside blocks.  Run returns the
\* error of the first failing statement and no value; no statement after it
\* is evaluated, in its block or after its block, so that none of their
\* bindings is made and none of their events printed.
C5_FirstErrorWins ==
  (input.fam = "stmts" /\ FirstFail(input.kinds) # 0)
  => LET f == FirstFail(input.kinds)
         n == Len(input.kinds)
     IN /\ pc # "crashed"
        /\ \A j \in 1..Len(st.trace) :
             /\ st.trace[j].Line <= f
             /\ st.trace[j].Line = f => st.trace[j].Column <= 4
        /\ \A j \in f..n :
             /\ {Name("a", j), Name("b", j), Name("c", j)} \cap BoundNames = {}
             /\ "Event emitted: " \o Name("C", j) \notin Printed
             /\ j > f => /\ "Event emitted: " \o Name("E", j) \notin Printed
                         /\ "Event emitted: " \o Name("B", j) \notin Printed
        /\ pc = "done" =>
             /\ err = ExpectedError(input.kinds[f], f)
             /\ result = NIL
             /\ k = f

\* C5's case: a statement list whose second statement is a block failing in
\* its middle, with a statement after it, and Run has returned
C5_Witness ==
  /\ input.fam = "stmts"
  /\ Len(input.kinds) = MaxStmts
  /\ input.kinds[1] = "emit"
  /\ input.kinds[2] = "blockfail"
  /\ pc = "done"
  /\ err.Type = "ReferenceError"
  /\ "Event emitted: B2" \in Printed

\* C6: parse errors are fatal.  When the parser recorded a diagnostic, Run
\* returns the SyntaxError "Failed to parse program" and evaluates nothing:
\* no statement is handed to the evaluator, no binding is made, and only the
\* parser's diagnostics are printed.
C6_ParseErrorsFatal ==
  Len(parseErrors) # 0
  => /\ pc \in {"new", "done"}
     /\ st.trace = <<>>
     /\ st.heap = <<NewEnvironment>>
     /\ result = NIL
     /\ pc = "new" => st.out = <<>>
     /\ pc = "done" =>
          /\ err = NewSyntaxError("Failed to parse program", 0, 0)
          /\ st.out = [j \in 1..Len(parseErrors) |-> "Parser error: " \o parseErrors[j]]

\* C6's case: a program of well-formed statements, a let and an emit among
\* them, followed by a stray token, and Run has returned
C6_Witness ==
  /\ input.fam = "strayParen"
  /\ Len(input.kinds) = 2
  /\ input.kinds[1] = "let"
  /\ input.kinds[2] = "emit"
  /\ pc = "done"
  /\ err.Type = "SyntaxError"

Abs(v) == IF v < 0 THEN -v ELSE v

\* q is a / b truncated toward zero: the remainder is smaller than b and has
\* the sign of a
Truncated(q, a, b) == Abs(a - q * b) < Abs(b) /\ (a - q * b) * a >= 0

\* C7: a / b on Integers is the quotient truncated toward zero, and a / 0
\* makes Run fail with the RuntimeError "Division by zero".
C7_DivisionTruncates ==
  (input.fam = "arith" /\ input.op = "/" /\ Ended)
  => IF input.b = 0
       THEN /\ pc = "done"
            /\ err.Type = "RuntimeError"
            /\ err.Message = "Division by zero"
            /\ result = NIL
       ELSE \E q \in -Abs(input.a)..Abs(input.a) :
              Truncated(q, input.a, input.b) /\ GaveInteger(q)

\* C7's case: a negative dividend that the divisor does not divide
C7_Witness ==
  /\ input.fam = "arith"
  /\ input.op = "/"
  /\ input.a = -3
  /\ input.b = 2
  /\ GaveInteger(-1)

\* C8: a + b, a - b and a * b on Integers are the Integer sum, difference
\* and product.
C8_IntegerArithmetic ==
  (input.fam = "arith" /\ input.op \in {"+", "-", "*"} /\ Ended)
  => GaveInteger(IF input.op = "+" THEN input.a + input.b
                 ELSE IF input.op = "-" THEN input.a - input.b
                 ELSE input.a * input.b)

\* C9: + with exactly one String operand concatenates in the order written:
\* the result is the String of the left operand's text followed by the right
\* operand's text, an Integer written in decimal and a Boolean as true or
\* false.
C9_MixedConcatInOrder ==
  (/\ input.fam = "concat"
   /\ ConcatOperands[input.l].str # ConcatOperands[input.r].str
   /\ Ended)
  => GaveString(ConcatOperands[input.l].text \o ConcatOperands[input.r].text)

\* C9's case: a negative Integer on the left of a String
C9_Witness ==
  /\ input.fam = "concat"
  /\ ~ConcatOperands[input.l].str
  /\ ConcatOperands[input.l].text = "-10"
  /\ ConcatOperands[input.r].text = "x="
  /\ GaveString("-10x=")

\* the program evaluated to Null and Run reported no error
GaveNull == pc = "done" /\ err = NoErr /\ result.t = "NULL"

\* C10: indexing an array outside 0..length-1, or a map with a key it does
\* not hold, gives Null and no error; indexing inside the range, or with a
\* key the map holds, gives the element or the value.
C10_MissingIsNull ==
  /\ (input.fam = "array" /\ Ended)
     => IF input.idx >= 0 /\ input.idx < input.n
          THEN GaveInteger(10 * (input.idx + 1))
          ELSE GaveNull
  /\ (input.fam = "map" /\ Ended)
     => IF \E j \in 1..Len(input.keys) : input.keys[j] = input.lookup
          THEN GaveInteger(100 + input.lookup)
          ELSE GaveNull

\* C10's case: the index just after the last element of the longest array
C10_Witness ==
  /\ input.fam = "array"
  /\ input.n = MaxArray
  /\ input.idx = MaxArray
  /\ GaveNull

\* C11: require(c, m) with a falsy c ends the run with the RuntimeError whose
\* message is the String m, and no later statement runs; with a truthy c it
\* raises nothing and binds nothing, and the statements after it run.
C11_RequireAborts ==
  (input.fam = "require" /\ RequireMessages[input.m].str)
  => IF RequireConds[input.c].truthy
       THEN /\ pc # "crashed"
            /\ err = NoErr
            /\ BoundNames \subseteq {"a1", "f"}
            /\ pc = "done" => {"Event emitted: Inner", "Event emitted: After"} \subseteq Printed
       ELSE /\ pc # "crashed"
            /\ {"Event emitted: Inner", "Event emitted: After"} \cap Printed = {}
            /\ \A j \in 1..Len(st.trace) : st.trace[j].Line <= RequireTok.Line
            /\ pc = "done" =>
                 /\ err = NewRuntimeError(RequireMessages[input.m].text,
                                          RequireTok.Line, RequireTok.Column)
                 /\ result = NIL

\* C11's case: a require with a false comparison and the message "nope" in a
\* function body, and Run has returned the error
C11_Witness ==
  /\ input.fam = "require"
  /\ input.place = "fn"
  /\ ~RequireConds[input.c].truthy
  /\ RequireConds[input.c].node.t = "InfixExpression"
  /\ pc = "done"
  /\ err.Message = "nope"

\* n!
RECURSIVE Factorial(_)
Factorial(n) == IF n = 0 THEN 1 ELSE n * Factorial(n - 1)

\* C12: a function bound with let can call itself by its name: with the
\* standard recursive definition, factorial(n) is the Integer n! for every
\* n >= 0.
C12_RecursionByName ==
  (input.fam = "factorial" /\ Ended) => GaveInteger(Factorial(input.n))

\* C12's case: factorial(2) has called factorial(1), which has called
\* factorial(0), and the program's value is 2
C12_Witness ==
  /\ input.fam = "factorial"
  /\ input.n = 2
  /\ GaveInteger(2)

\* the forms of the precedence programs whose value is an Integer, and that
\* value, computed with the grouping of FormTree
IntegerForms == {1, 2, 3, 4, 6, 7, 11}

FormValue(f, a, b, c) ==
  CASE f = 1 -> a + (b * c)
    [] f = 2 -> (a - b) - c
    [] f = 3 -> (a \div b) * c
    [] f = 4 -> (-a) * b
    [] f = 6 -> (a + b) * c
    [] f = 7 -> (a * b) + c
    [] f = 11 -> a - (b - c)

\* C13: binary operators group by the order equality < relational < additive
\* < multiplicative, a prefix operator binds tighter than any binary operator,
\* operators of one level group left to right, and parentheses override the
\* grouping: the text of every form parses, without a diagnostic, to the tree
\* of its grouping, as does the text with the grouping spelled out, and the
\* arithmetic forms evaluate to the value of that grouping.
C13_PrecedenceGrouping ==
  (input.fam = "precedence" /\ pc # "source")
  => /\ parseErrors = <<>>
     /\ Len(program) = 1
     /\ program[1].t = "ExpressionStatement"
     /\ program[1].Expression = FormTree(input.form, input.a, input.b, input.c, input.d)
     /\ ParseSource(Text(FormExplicit(input.form, input.a, input.b, input.c, input.d)))
          .node[1].Expression
        = FormTree(input.form, input.a, input.b, input.c, input.d)
     /\ (pc = "done" /\ input.form \in IntegerForms)
        => GaveInteger(FormValue(input.form, input.a, input.b, input.c))

\* C13's case: 1 + 2 * 3; has been parsed and evaluated to 7, not to 9
C13_Witness ==
  /\ input.fam = "precedence"
  /\ input.form = 1
  /\ input.a = 1 /\ input.b = 2 /\ input.c = 3
  /\ GaveInteger(7)
  /\ program[1].Expression.Right.t = "InfixExpression"

\* the last call of NextToken returned an EOF token
ReturnedEOF == toks # <<>> /\ toks[Len(toks)].Type = "EOF"

\* C14: end of input is a terminal state of the tokenizer: once NextToken has
\* returned an EOF token, the next call returns an EOF token again.
C14_EOFIsTerminal == [][ReturnedEOF => ReturnedEOF']_vars

\* C15: ParseProgram returns for every source text, without a panic, having
\* read the text to its end (the last token it was given is EOF), and every
\* malformed text leaves a diagnostic in Errors().
C15_ParseTotal ==
  (input.fam = "syntax" /\ pc # "source")
  => /\ toks # <<>> /\ toks[Len(toks)].Type = "EOF"
     /\ SyntaxTexts[input.i].malformed => parseErrors # <<>>

\* the value a program ended with, a ReturnValue taken for the value it wraps
ProgramValue == IF result.t = "RETURN_VALUE" THEN result.Value ELSE result

\* C16: a return at top level, directly or inside an if block, ends the
\* program: no later top-level statement is evaluated and the program's value
\* is the returned value.
C16_TopLevelReturnEnds ==
  input.fam = "top-return"
  => /\ "Event emitted: After" \notin Printed
     /\ pc = "done" => /\ err = NoErr
                       /\ "Event emitted: Before" \in Printed
                       /\ ProgramValue.t = "INTEGER"
                       /\ ProgramValue.Value = input.v

\* C17: a return inside a function body, at any depth of nested if/else, ends
\* the call: no later statement of the body is evaluated, the call evaluates
\* to the returned value, and the caller's statements after the call run.
C17_ReturnEndsCall ==
  input.fam = "fn-return"
  => /\ "Event emitted: Dead" \notin Printed
     /\ pc # "crashed"
     /\ pc = "done" => /\ GaveInteger(input.v)
                       /\ {"Event emitted: Enter", "Event emitted: Caller"} \subseteq Printed

\* C17's case: the return lies two if expressions deep, in an else block, and
\* the run has ended
C17_Witness ==
  /\ input.fam = "fn-return"
  /\ input.depth = 2
  /\ input.branch = "else"
  /\ GaveInteger(input.v)
  /\ "Event emitted: Caller" \in Printed

\* the exits of blocks and calls recorded so far
Exits == {st.exits[j] : j \in 1..Len(st.exits)}

\* C18: whenever a block or a function call finishes, normally, by a return or
\* with an error, the current environment is the one that was current before
\* it began; between the top-level statements and when evalProgram has
\* returned, the current environment is the global one.
C18_EnvironmentRestored ==
  pc # "crashed"
  => /\ \A x \in Exits : x.after = x.before
     /\ st.env = 1

\* C18's case: inside a function body a block was left with an error, the
\* call was left with that error, and Run has returned
C18_Witness ==
  /\ pc = "done"
  /\ err.Type = "RuntimeError"
  /\ \E x \in Exits : x.kind = "block" /\ x.how = "error" /\ x.before > 1
  /\ \E x \in Exits : x.kind = "call" /\ x.how = "error"

\* C19: the evaluation of a program that parsed without a diagnostic never
\* crashes the host, also when an if without else whose condition is false, or
\* a call of a function with an empty body, gave no value, the let bound it,
\* and the variable is then an operand of an infix or prefix operator or the
\* function of a call.
C19_NoValueNeverCrashes ==
  (input.fam = "no-value" /\ parseErrors = <<>>) => pc # "crashed"

\* the operands of an equality program are not both Integers and not both
\* Strings
MixedOperands ==
  /\ input.fam = "equality"
  /\ ~(OperandKind(input.l) = "INTEGER" /\ OperandKind(input.r) = "INTEGER")
  /\ ~(OperandKind(input.l) = "STRING" /\ OperandKind(input.r) = "STRING")

\* C20: for operands that are not both Integers and not both Strings, == and
\* != raise no error and compare the values: true == true is true, true != true
\* is false, true == false is false, and values of different kinds are unequal.
C20_EqualityComparesValues ==
  (MixedOperands /\ Ended)
  => /\ pc = "done" /\ err = NoErr
     /\ result.t = "BOOLEAN"
     /\ result.Value = ((input.op = "==") <=> (input.l = input.r))

\* the characters of an identifier, and the longest run of characters of the
\* set chars at the start of the text src
IdentChars == Letters \cup {"_"} \cup {DigitStr(d) : d \in 0..9}

RECURSIVE MaximalRun(_, _)
MaximalRun(src, chars) ==
  IF src # <<>> /\ src[1] \in chars THEN src[1] \o MaximalRun(Tail(src), chars) ELSE ""

\* C21: the literal of an identifier, keyword or number token is the whole
\* maximal run of identifier characters, respectively digits, that starts at the
\* token's first character, also when the run extends to the end of the input:
\* abc gives IDENT abc, let gives LET, 5 gives INT 5.
C21_WholeRunIsLiteral ==
  (input.fam = "lexer" /\ Len(toks) >= 1 /\ input.src # <<>>)
  => /\ isLetter(input.src[1])
        => /\ toks[1].Literal = MaximalRun(input.src, IdentChars)
           /\ toks[1].Type = LookupIdent(MaximalRun(input.src, IdentChars))
     /\ isDigit(input.src[1])
        => /\ toks[1].Type = "INT"
           /\ toks[1].Literal = MaximalRun(input.src, {DigitStr(d) : d \in 0..9})

\* The index (from 0) of the first character of the next token of the text src
\* at or after index p: white space, a comment up to the end of its line and a
\* comment between /* and */ are passed over; Len(src) when no token is left.
RECURSIVE CommentEnd(_, _, _)
CommentEnd(src, p, block) ==
  IF p >= Len(src) THEN Len(src)
  ELSE IF ~block /\ src[p + 1] = "\n" THEN p
  ELSE IF block /\ src[p + 1] = "*" /\ p + 1 < Len(src) /\ src[p + 2] = "/" THEN p + 2
  ELSE CommentEnd(src, p + 1, block)

RECURSIVE TokenStart(_, _)
TokenStart(src, p) ==
  IF p >= Len(src) THEN Len(src)
  ELSE IF IsSpace(src[p + 1]) THEN TokenStart(src, p + 1)
  ELSE IF src[p + 1] = "/" /\ p + 1 < Len(src) /\ src[p + 2] \in {"/", "*"}
    THEN TokenStart(src, CommentEnd(src, p + 2, src[p + 2] = "*"))
  ELSE p

\* the line and the column of the character at index p (from 0) of src
LineOf(src, p) == 1 + Cardinality({j \in 1..p : src[j] = "\n"})

ColumnOf(src, p) ==
  LET newlines == {j \in 1..p : src[j] = "\n"}
  IN IF newlines = {} THEN p + 1
     ELSE p + 1 - (CHOOSE j \in newlines : \A i \in newlines : i <= j)

\* the index of the character the lexer l is at: the length of the input once
\* the input is used up
ReadingAt(l) == IF l.readPosition >= Len(l.input) /\ l.ch = NUL THEN Len(l.input) ELSE l.position

\* C22: every token NextToken returns, of every kind, carries the line and the
\* column of its first character: lines count from 1 and grow at each newline,
\* columns restart at each newline, also after comments and after strings that
\* span lines.
C22_TokenPosition ==
  [][(pc = "lexing" /\ Len(toks') > Len(toks)
        /\ \A j \in 1..Len(input.src) : input.src[j] # NUL)
     => /\ toks'[Len(toks')].Line =
              LineOf(input.src, TokenStart(input.src, ReadingAt(lexer)))
        /\ toks'[Len(toks')].Column =
              ColumnOf(input.src, TokenStart(input.src, ReadingAt(lexer)))]_vars

\* C23: for Integers a and b the source expressions a <= b and a >= b pass the
\* tokenizer, the parser and the evaluator without a diagnostic or an error and
\* evaluate to the Booleans (a <= b) and (a >= b).
C23_LessEqualGreaterEqual ==
  (input.fam = "compare" /\ Ended)
  => /\ parseErrors = <<>>
     /\ pc = "done" /\ err = NoErr
     /\ result.t = "BOOLEAN"
     /\ result.Value = IF input.op = "<=" THEN input.a <= input.b ELSE input.a >= input.b

\* C24: when an Integer operand of + is written with a leading zero digit the
\* two Integer operands are concatenated as written, keeping the leading zero:
\* 01 + 5551234 is the String "015551234"; 5 + 10 stays the Integer 15.
C24_LeadingZeroConcatenates ==
  (input.fam = "phone" /\ Ended)
  => IF input.code \in ZeroLed
       THEN GaveString(input.code \o input.number)
       ELSE GaveInteger(15)

\* C25: emit evaluates all its arguments, left to right, and only then hands
\* the observer the event name with the complete list of argument values; when
\* an argument fails, the error propagates and the observer receives nothing
\* for that emit, neither the name nor the earlier arguments.
C25_EmitAllOrNothing ==
  (input.fam = "emit" /\ Ended)
  => /\ pc = "done"
     /\ IF "missing" \in {input.a, input.b}
          THEN err.Type = "ReferenceError" /\ st.out = <<>>
          ELSE /\ err = NoErr
               /\ st.out = <<"Event emitted: Transfer", "  Argument: " \o input.a,
                             "  Argument: " \o input.b>>

\* C26: the value of a function call is never a ReturnValue wrapper: whatever
\* the body does, also a return applied to an if expression whose branch itself
\* executes a return, the call gives a plain value, which a later operator
\* sees as the Integer it is.
C26_CallGivesPlainValue ==
  (input.fam = "return-of-if" /\ Ended) => GaveInteger(input.v + 1)

\* the outcome r of another run gives the value and the error this run ended
\* with
SameOutcome(r) ==
  /\ r.err = err
  /\ r.val.t = result.t
  /\ r.val.t = "INTEGER" => r.val.Value = result.Value

\* C27: evaluation is deterministic: two runs of the same program give the
\* same value or the same error; a map literal that writes one key twice
\* always keeps the same one of the two values, and a map literal with two
\* failing entries always reports the same one of the two errors.
C27_Deterministic ==
  (input.fam = "map-order" /\ pc = "done")
  => \A order \in [1..2 -> BOOLEAN] :
       SameOutcome(evalStatement(program[1], NewState(order)))

\* the number a digit sequence denotes in decimal
RECURSIVE DecimalValue(_)
DecimalValue(s) ==
  IF s = "" THEN 0
  ELSE 10 * DecimalValue(SubSeq(s, 1, Len(s) - 1)) + DigitValue(SubSeq(s, Len(s), Len(s)))

\* C28: an integer literal evaluates to the Integer whose decimal value is its
\* digit sequence, also when it is written with leading zeros: 010 is ten, and
\* 08 and 09 parse without a diagnostic as eight and nine.
C28_LiteralIsDecimal ==
  (input.fam = "literal" /\ Ended)
  => /\ parseErrors = <<>>
     /\ GaveInteger(DecimalValue(input.lit))

\* C29: if and require treat a condition as true exactly when it is Boolean
\* true, an Integer other than 0, or a value of another kind (a String, also
\* the empty one, an Array, also the empty one, a Map, a Function, Null);
\* Boolean false and Integer 0 are the only false conditions, and both
\* constructs use the same rule.
C29_Truthiness ==
  (input.fam = "truth" /\ Ended)
  => /\ pc = "done"
     /\ st.heap[1].store["c"].t = TruthConds[input.c].kind
     /\ IF input.construct = "if"
          THEN /\ err = NoErr
               /\ st.out = IF TruthConds[input.c].truthy
                             THEN <<"Event emitted: Then">> ELSE <<"Event emitted: Else">>
          ELSE IF TruthConds[input.c].truthy
            THEN err = NoErr /\ st.out = <<"Event emitted: Passed">>
            ELSE err = NewRuntimeError("no", 2, 1) /\ st.out = <<>>

\* C29's case: an if whose condition is the empty String has taken its
\* consequence
C29_Witness ==
  /\ input.fam = "truth"
  /\ pc = "done"
  /\ input.construct = "if"
  /\ TruthConds[input.c].node = StringLiteral("")
  /\ st.out = <<"Event emitted: Then">>

\* C30: in a Map keys of different kinds never denote the same entry: a map
\* built with keys among Integer 1, String "1" and Boolean true holds one entry
\* for each key, a lookup with a key the map holds gives the value stored under
\* that key, and a lookup with a key it does not hold gives no value stored
\* under a key of another kind (it gives Null).
C30_KindsNeverCollide ==
  (input.fam = "kinds" /\ Ended)
  => /\ pc = "done" /\ err = NoErr
     /\ Len(st.heap[1].store["m"].Pairs) = Len(input.keys)
     /\ IF \E j \in 1..Len(input.keys) : input.keys[j] = input.lookup
          THEN result.t = "INTEGER" /\ result.Value = 100 + input.lookup
          ELSE result.t = "NULL"

\* C30's case: the map holds the three keys 1, "1" and true, and the lookup
\* with the String "1" has given the value stored under the String
C30_Witness ==
  /\ input.fam = "kinds"
  /\ Len(input.keys) = 3
  /\ input.lookup = 2
  /\ GaveInteger(102)

====
